---- MODULE Spec2Model ----
(***************************************************************************)
(* Verified-boot decision core of kernelflinger.                           *)
(*                                                                         *)
(*   src/unnamed/part_000   AVB adapter: rollback indexes, verifier        *)
(*                          result mapping, partition load                 *)
(*   src/kernelflinger.c    target selection, efi_main, load_image,        *)
(*                          boot_error, fastboot loop                      *)
(*                                                                         *)
(* The two files are not linked by a call (efi_main loads through          *)
(* android_image_load_partition and validate_bootimage), so each part has  *)
(* its own specification over its own variables:                           *)
(*   SpecAvb       the AVB result mapping and partition load               *)
(*   SpecRollback  avb_update_stored_rollback_indexes_for_slot             *)
(*   Spec          efi_main from the selected target to the end of boot    *)
(*   SpecChoose    choose_boot_target                                      *)
(***************************************************************************)
EXTENDS Integers, Sequences, FiniteSets, TLC

VARIABLES
    \* ---- AVB adapter (SpecAvb)
    avb_pc,             \* "idle" | "done"
    avb_boot_state,     \* the caller's UINT8 *boot_state
    avb_call,           \* the inputs of the last call
    avb_ret,            \* EFI_STATUS returned by the last call
    avb_bootimage,      \* *bootimage_p after the last call
    avb_active_cached,  \* suffix given to slot_set_active_cached, "" if none
    \* ---- rollback controller (SpecRollback)
    rb_pc,              \* "idle" | "loop" | "ret_true" | "ret_false"
    rb_n,               \* loop variable n
    rb_stored,          \* the stored rollback index of every location
    rb_before,          \* rb_stored when the call started
    rb_asserted,        \* slot_data->rollback_indexes
    rb_writes,          \* locations written by the call, in order
    rb_failed_at,       \* location whose read or write failed, -1 if none
    \* ---- efi_main (Spec)
    pc,                 \* position in efi_main / its callees
    cfg,                \* build flags and platform policy, fixed for a boot
    boot_target,        \* enum boot_target boot_target
    boot_state,         \* UINT8 boot_state of efi_main
    lock_prompted,      \* BOOLEAN lock_prompted
    bootimage,          \* VOID *bootimage: "NULL" or "image"
    load_ret,           \* ret of load_boot_image
    image,              \* what validate_bootimage saw in the loaded image
    slots,              \* per-slot metadata
    slot_active,        \* cached active suffix, "NULL" if none
    recovery_tries,     \* slot_recovery_tries_remaining()
    BootStateVar,       \* firmware variable BootState, -1 while unset
    ux_calls,           \* error codes boot_error was invoked with, in order
    load_failed,        \* load_boot_image failed in efi_main in this boot
    load_log,           \* the slot loop of load_boot_image: reads and marks
    slot_boot_calls,    \* who called slot_boot after the image load step
    started,            \* invocations of android_image_start_buffer
    fb_image,           \* the last boot image the fastboot loop was handed
    reboot_count,       \* reboots to the same target after a failed start
    ended,              \* "" while running, else how the boot ended
    \* ---- choose_boot_target (SpecChoose)
    ch_pc,              \* the check about to run, "out" after the out label
    ch_env,             \* build and platform inputs, fixed for a boot
    ch_ret,             \* enum boot_target ret
    ch_log,             \* the checks run so far and what each returned
    ch_target_path,     \* *target_path, "NULL" if none
    ch_oneshot,         \* *oneshot
    ch_bcb,             \* the BCB on misc as check_bcb found and left it
    ch_oneshot_var,     \* LoaderEntryOneShot, "unread" before its check
    ch_wd,              \* persisted watchdog status left by check_watchdog
    ch_verity_corrupted,\* slot_set_verity_corrupted(TRUE) took effect
    ch_ux,              \* UX screens shown by the selector, in order
    ch_sentinel,        \* \force_fastboot on the ESP: "unread", "present" or "absent"
    ch_battery,         \* what check_battery found: level and charger
    \* ---- check_watchdog over consecutive boots (SpecWatchdog)
    wdg_env,            \* build and policy: USER, get_watchdog_counter_max()
    wdg_status,         \* the persisted watchdog counter and time reference
    wdg_boots,          \* boots so far
    wdg_last,           \* what the last boot saw and did
    wdg_run,            \* boots in the current run of counted resets
    wdg_row,            \* watchdog/panic resets in a row since the last menu
    \* ---- single functions of the selector and loader (SpecMagicKey, ...)
    mk,                 \* check_magic_key: its inputs, loop counter and result
    fn                  \* one call of one function: its name, inputs and result

varsAvb == <<avb_pc, avb_boot_state, avb_call, avb_ret, avb_bootimage,
             avb_active_cached>>
varsRb == <<rb_pc, rb_n, rb_stored, rb_before, rb_asserted, rb_writes,
            rb_failed_at>>
varsMain == <<pc, cfg, boot_target, boot_state, lock_prompted, bootimage,
              load_ret, image, slots, slot_active, recovery_tries,
              BootStateVar, ux_calls, load_failed, load_log, slot_boot_calls,
              started, fb_image, reboot_count, ended>>
varsChoose == <<ch_pc, ch_env, ch_ret, ch_log, ch_target_path, ch_oneshot,
                ch_bcb, ch_oneshot_var, ch_wd, ch_verity_corrupted, ch_ux,
                ch_sentinel, ch_battery>>
varsWdg == <<wdg_env, wdg_status, wdg_boots, wdg_last, wdg_run, wdg_row>>
varsFn == <<mk, fn>>
vars == <<varsAvb, varsRb, varsMain, varsChoose, varsWdg, varsFn>>

-----------------------------------------------------------------------------
(* Trust colours: the UINT8 boot state, ordered GREEN < YELLOW < ORANGE < RED *)
BOOT_STATE_GREEN == 0
BOOT_STATE_YELLOW == 1
BOOT_STATE_ORANGE == 2
BOOT_STATE_RED == 3
BootStates == {BOOT_STATE_GREEN, BOOT_STATE_YELLOW, BOOT_STATE_ORANGE,
               BOOT_STATE_RED}

EFI_ERROR(ret) == ret # "EFI_SUCCESS"

Max2(a, b) == IF a >= b THEN a ELSE b

-----------------------------------------------------------------------------
(*                           AVB ADAPTER                                    *)

\* Bound: how many partitions the verifier may report as loaded.
MaxLoadedPartitions == 2

AvbSlotVerifyResults ==
    {"OK", "ERROR_OOM", "ERROR_IO", "ERROR_VERIFICATION",
     "ERROR_ROLLBACK_INDEX", "ERROR_PUBLIC_KEY_REJECTED",
     "ERROR_INVALID_METADATA", "ERROR_UNSUPPORTED_VERSION",
     "ERROR_INVALID_ARGUMENT"}

AvbABFlowResults ==
    {"OK", "OK_WITH_VERIFICATION_ERROR", "ERROR_OOM", "ERROR_IO",
     "ERROR_NO_BOOTABLE_SLOTS", "ERROR_INVALID_ARGUMENT"}

\* AvbSlotVerifyData as far as the adapter reads it: the pointer may be NULL;
\* magic_ok says whether loaded_partitions[0].data begins with BOOT_MAGIC.
NullSlotData ==
    [null |-> TRUE, num_loaded_partitions |-> 0, magic_ok |-> FALSE,
     ab_suffix |-> "_a"]

SlotDataValues ==
    {NullSlotData} \cup
    {[null |-> FALSE, num_loaded_partitions |-> k, magic_ok |-> m,
      ab_suffix |-> s] :
        k \in 0..MaxLoadedPartitions, m \in BOOLEAN, s \in {"_a", "_b"}}

\* The switch of get_avb_result / get_avb_flow_result for a non-OK outcome.
AvbErrorState(allow_verification_error, state) ==
    IF allow_verification_error /\ state <= BOOT_STATE_ORANGE
    THEN BOOT_STATE_ORANGE
    ELSE BOOT_STATE_RED

\* The case of the switch for outcome OK.
AvbOkState(allow_verification_error, state) ==
    IF allow_verification_error /\ state < BOOT_STATE_ORANGE
    THEN BOOT_STATE_ORANGE
    ELSE state

\* Mutant: the header magic is not compared.
get_avb_result_nomagic(slot_data, allow_verification_error, verify_result, state) ==
    IF slot_data.null
    THEN [ret |-> "EFI_INVALID_PARAMETER", boot_state |-> state]
    ELSE IF slot_data.num_loaded_partitions < 1
    THEN [ret |-> "EFI_LOAD_ERROR", boot_state |-> state]
    ELSE IF verify_result = "OK"
    THEN [ret |-> "EFI_SUCCESS",
          boot_state |-> AvbOkState(allow_verification_error, state)]
    ELSE [ret |-> "EFI_SUCCESS",
          boot_state |-> AvbErrorState(allow_verification_error, state)]

\* get_avb_result: returns the status and the new *state.
get_avb_result(slot_data, allow_verification_error, verify_result, state) ==
    IF slot_data.null
    THEN [ret |-> "EFI_INVALID_PARAMETER", boot_state |-> state]
    ELSE IF slot_data.num_loaded_partitions < 1
    THEN [ret |-> "EFI_LOAD_ERROR", boot_state |-> state]
    ELSE IF ~slot_data.magic_ok
    THEN [ret |-> "EFI_NOT_FOUND", boot_state |-> state]
    ELSE IF verify_result = "OK"
    THEN [ret |-> "EFI_SUCCESS",
          boot_state |-> AvbOkState(allow_verification_error, state)]
    ELSE IF verify_result \in {"ERROR_VERIFICATION", "ERROR_ROLLBACK_INDEX",
                               "ERROR_PUBLIC_KEY_REJECTED"}
    THEN [ret |-> "EFI_SUCCESS",
          boot_state |-> AvbErrorState(allow_verification_error, state)]
    ELSE [ret |-> "EFI_SUCCESS",
          boot_state |-> AvbErrorState(allow_verification_error, state)]

\* Mutant: an allowed flow error keeps the incoming state instead of ORANGE.
get_avb_flow_result_keep(slot_data, allow_verification_error, flow_result, state) ==
    IF slot_data.null
    THEN [ret |-> "EFI_INVALID_PARAMETER", boot_state |-> state]
    ELSE IF slot_data.num_loaded_partitions < 1
    THEN [ret |-> "EFI_LOAD_ERROR", boot_state |-> state]
    ELSE IF ~slot_data.magic_ok
    THEN [ret |-> "EFI_NOT_FOUND", boot_state |-> state]
    ELSE IF flow_result = "OK"
    THEN [ret |-> "EFI_SUCCESS",
          boot_state |-> AvbOkState(allow_verification_error, state)]
    ELSE [ret |-> "EFI_SUCCESS",
          boot_state |-> IF allow_verification_error
                            /\ state <= BOOT_STATE_ORANGE
                         THEN state
                         ELSE BOOT_STATE_RED]

\* get_avb_flow_result: the same reduction for an A/B flow result.
get_avb_flow_result(slot_data, allow_verification_error, flow_result, state) ==
    IF slot_data.null
    THEN [ret |-> "EFI_INVALID_PARAMETER", boot_state |-> state]
    ELSE IF slot_data.num_loaded_partitions < 1
    THEN [ret |-> "EFI_LOAD_ERROR", boot_state |-> state]
    ELSE IF ~slot_data.magic_ok
    THEN [ret |-> "EFI_NOT_FOUND", boot_state |-> state]
    ELSE IF flow_result = "OK"
    THEN [ret |-> "EFI_SUCCESS",
          boot_state |-> AvbOkState(allow_verification_error, state)]
    ELSE IF flow_result \in {"OK_WITH_VERIFICATION_ERROR", "ERROR_OOM",
                             "ERROR_IO", "ERROR_NO_BOOTABLE_SLOTS",
                             "ERROR_INVALID_ARGUMENT"}
    THEN [ret |-> "EFI_SUCCESS",
          boot_state |-> AvbErrorState(allow_verification_error, state)]
    ELSE [ret |-> "EFI_SUCCESS",
          boot_state |-> AvbErrorState(allow_verification_error, state)]

\* Mutant: verification errors are allowed whatever the incoming state.
AllowVerificationError_always(state) == TRUE

\* bool allow_verification_error = *state != BOOT_STATE_GREEN
AllowVerificationError(state) == state # BOOT_STATE_GREEN

\* android_image_load_partition_avb. ops_ok: avb_init returned an AvbOps;
\* verify_result and slot_data are what avb_slot_verify gave back.
android_image_load_partition_avb(ops_ok, state, verify_result, slot_data) ==
    IF ~ops_ok
    THEN [ret |-> "EFI_OUT_OF_RESOURCES", boot_state |-> BOOT_STATE_RED,
          bootimage |-> "NULL"]
    ELSE LET r == get_avb_result(slot_data, AllowVerificationError(state),
                                 verify_result, state)
         IN  IF EFI_ERROR(r.ret)
             THEN [ret |-> r.ret, boot_state |-> BOOT_STATE_RED,
                   bootimage |-> "NULL"]
             ELSE [ret |-> r.ret, boot_state |-> r.boot_state,
                   bootimage |-> "data"]

\* android_image_load_partition_avb_ab in a USE_SLOT build; cached is the
\* suffix handed to slot_set_active_cached ("" when it is not called).
android_image_load_partition_avb_ab(state, flow_result, slot_data) ==
    LET r == get_avb_flow_result(slot_data, AllowVerificationError(state),
                                 flow_result, state)
    IN  IF EFI_ERROR(r.ret)
        THEN [ret |-> r.ret, boot_state |-> BOOT_STATE_RED,
              bootimage |-> "NULL", cached |-> ""]
        ELSE [ret |-> r.ret, boot_state |-> r.boot_state,
              bootimage |-> "data", cached |-> slot_data.ab_suffix]

NoAvbCall ==
    [fn |-> "none", boot_state |-> BOOT_STATE_GREEN, allow |-> FALSE,
     outcome |-> "OK", slot_data |-> NullSlotData]

InitAvb ==
    /\ avb_pc = "idle"
    /\ avb_boot_state \in BootStates
    /\ avb_call = NoAvbCall
    /\ avb_ret = "EFI_SUCCESS"
    /\ avb_bootimage = "NULL"
    /\ avb_active_cached = ""

\* A direct call of get_avb_result with any flag and state.
GetAvbResultCall ==
    /\ avb_pc = "idle"
    /\ \E sd \in SlotDataValues, allow \in BOOLEAN, vr \in AvbSlotVerifyResults :
         LET r == get_avb_result(sd, allow, vr, avb_boot_state)
         IN  /\ avb_call' = [fn |-> "get_avb_result",
                             boot_state |-> avb_boot_state, allow |-> allow,
                             outcome |-> vr, slot_data |-> sd]
             /\ avb_ret' = r.ret
             /\ avb_boot_state' = r.boot_state
    /\ avb_pc' = "done"
    /\ UNCHANGED <<avb_bootimage, avb_active_cached>>

\* A direct call of get_avb_flow_result with any flag and state.
GetAvbFlowResultCall ==
    /\ avb_pc = "idle"
    /\ \E sd \in SlotDataValues, allow \in BOOLEAN, fr \in AvbABFlowResults :
         LET r == get_avb_flow_result(sd, allow, fr, avb_boot_state)
         IN  /\ avb_call' = [fn |-> "get_avb_flow_result",
                             boot_state |-> avb_boot_state, allow |-> allow,
                             outcome |-> fr, slot_data |-> sd]
             /\ avb_ret' = r.ret
             /\ avb_boot_state' = r.boot_state
    /\ avb_pc' = "done"
    /\ UNCHANGED <<avb_bootimage, avb_active_cached>>

\* android_image_load_partition_avb, also reached from the _ab entry point in
\* a build without USE_SLOT. When avb_init fails the verifier never runs and
\* there is no slot data.
LoadPartitionAvb ==
    /\ avb_pc = "idle"
    /\ \E ops_ok \in BOOLEAN, sd \in SlotDataValues, vr \in AvbSlotVerifyResults,
          entry \in {"android_image_load_partition_avb",
                     "android_image_load_partition_avb_ab"} :
         /\ ~ops_ok => (sd = NullSlotData /\ vr = "OK")
         /\ LET r == android_image_load_partition_avb(ops_ok, avb_boot_state,
                                                      vr, sd)
            IN  /\ avb_call' = [fn |-> entry,
                                boot_state |-> avb_boot_state,
                                allow |-> AllowVerificationError(avb_boot_state),
                                outcome |-> vr, slot_data |-> sd]
                /\ avb_ret' = r.ret
                /\ avb_boot_state' = r.boot_state
                /\ avb_bootimage' = r.bootimage
    /\ avb_pc' = "done"
    /\ UNCHANGED avb_active_cached

\* android_image_load_partition_avb_ab in a USE_SLOT build.
LoadPartitionAvbAb ==
    /\ avb_pc = "idle"
    /\ \E sd \in SlotDataValues, fr \in AvbABFlowResults :
         LET r == android_image_load_partition_avb_ab(avb_boot_state, fr, sd)
         IN  /\ avb_call' = [fn |-> "android_image_load_partition_avb_ab_flow",
                             boot_state |-> avb_boot_state,
                             allow |-> AllowVerificationError(avb_boot_state),
                             outcome |-> fr, slot_data |-> sd]
             /\ avb_ret' = r.ret
             /\ avb_boot_state' = r.boot_state
             /\ avb_bootimage' = r.bootimage
             /\ avb_active_cached' = r.cached
    /\ avb_pc' = "done"

\* The caller takes the result; the next call starts from the state it left.
AvbReturn ==
    /\ avb_pc = "done"
    /\ avb_pc' = "idle"
    /\ avb_call' = NoAvbCall
    /\ avb_ret' = "EFI_SUCCESS"
    /\ avb_bootimage' = "NULL"
    /\ avb_active_cached' = ""
    /\ UNCHANGED avb_boot_state

------------------------------------------------------------------------

-----------------------------------------------------------------------------
(*                        ROLLBACK CONTROLLER                               *)

\* Bounds: locations modelled (AVB_MAX_NUMBER_OF_ROLLBACK_INDEX_LOCATIONS in
\* the code) and the largest index value.
MaxLocations == 2
MaxRollbackIndex == 2

Locations == 0..(MaxLocations - 1)
RollbackValues == 0..MaxRollbackIndex

\* if (rollback_index > 0): the location is looked at at all
RollbackAsserted(rollback_index) == rollback_index > 0

\* Mutant: every asserted index is written, also a lower one.
RollbackNeedsWrite_always(rollback_index, current_stored_rollback_index) ==
    TRUE

\* if (rollback_index > current_stored_rollback_index): write it
RollbackNeedsWrite(rollback_index, current_stored_rollback_index) ==
    rollback_index > current_stored_rollback_index

\* Mutant: a failed read is skipped over and the loop goes on.
RollbackAfterReadFailure_continue(n) ==
    [pc |-> "loop", n |-> n + 1, failed_at |-> -1]

\* if (io_ret != AVB_IO_RESULT_OK) return false, after the read
RollbackAfterReadFailure(n) ==
    [pc |-> "ret_false", n |-> n, failed_at |-> n]

InitRb ==
    /\ rb_pc = "idle"
    /\ rb_n = 0
    /\ rb_stored \in [Locations -> RollbackValues]
    /\ rb_before = rb_stored
    /\ rb_asserted = [l \in Locations |-> 0]
    /\ rb_writes = <<>>
    /\ rb_failed_at = -1

\* avb_update_stored_rollback_indexes_for_slot is entered with a slot_data.
RbCall ==
    /\ rb_pc = "idle"
    /\ rb_asserted' \in [Locations -> RollbackValues]
    /\ rb_before' = rb_stored
    /\ rb_n' = 0
    /\ rb_writes' = <<>>
    /\ rb_failed_at' = -1
    /\ rb_pc' = "loop"
    /\ UNCHANGED rb_stored

\* One iteration whose asserted index is 0: nothing is read.
RbSkip ==
    /\ rb_pc = "loop" /\ rb_n < MaxLocations
    /\ ~RollbackAsserted(rb_asserted[rb_n])
    /\ rb_n' = rb_n + 1
    /\ UNCHANGED <<rb_pc, rb_stored, rb_before, rb_asserted, rb_writes,
                   rb_failed_at>>

\* One iteration whose read_rollback_index fails.
RbReadFail ==
    /\ rb_pc = "loop" /\ rb_n < MaxLocations
    /\ RollbackAsserted(rb_asserted[rb_n])
    /\ LET r == RollbackAfterReadFailure(rb_n)
       IN  /\ rb_pc' = r.pc
           /\ rb_n' = r.n
           /\ rb_failed_at' = r.failed_at
    /\ UNCHANGED <<rb_stored, rb_before, rb_asserted, rb_writes>>

\* One iteration that reads and finds nothing to advance.
RbKeep ==
    /\ rb_pc = "loop" /\ rb_n < MaxLocations
    /\ RollbackAsserted(rb_asserted[rb_n])
    /\ ~RollbackNeedsWrite(rb_asserted[rb_n], rb_stored[rb_n])
    /\ rb_n' = rb_n + 1
    /\ UNCHANGED <<rb_pc, rb_stored, rb_before, rb_asserted, rb_writes,
                   rb_failed_at>>

\* One iteration that reads and writes the asserted index.
RbWrite ==
    /\ rb_pc = "loop" /\ rb_n < MaxLocations
    /\ RollbackAsserted(rb_asserted[rb_n])
    /\ RollbackNeedsWrite(rb_asserted[rb_n], rb_stored[rb_n])
    /\ rb_stored' = [rb_stored EXCEPT ![rb_n] = rb_asserted[rb_n]]
    /\ rb_writes' = Append(rb_writes, [loc |-> rb_n, old |-> rb_stored[rb_n],
                                       new |-> rb_asserted[rb_n]])
    /\ rb_n' = rb_n + 1
    /\ UNCHANGED <<rb_pc, rb_before, rb_asserted, rb_failed_at>>

\* One iteration whose write_rollback_index fails; the store keeps its value.
RbWriteFail ==
    /\ rb_pc = "loop" /\ rb_n < MaxLocations
    /\ RollbackAsserted(rb_asserted[rb_n])
    /\ RollbackNeedsWrite(rb_asserted[rb_n], rb_stored[rb_n])
    /\ rb_pc' = "ret_false"
    /\ rb_failed_at' = rb_n
    /\ UNCHANGED <<rb_n, rb_stored, rb_before, rb_asserted, rb_writes>>

\* The loop ran through every location: return true.
RbDone ==
    /\ rb_pc = "loop" /\ rb_n = MaxLocations
    /\ rb_pc' = "ret_true"
    /\ UNCHANGED <<rb_n, rb_stored, rb_before, rb_asserted, rb_writes,
                   rb_failed_at>>

\* The caller has the result; the store stays as the call left it.
RbReturn ==
    /\ rb_pc \in {"ret_true", "ret_false"}
    /\ rb_pc' = "idle"
    /\ rb_n' = 0
    /\ rb_before' = rb_stored
    /\ rb_asserted' = [l \in Locations |-> 0]
    /\ rb_writes' = <<>>
    /\ rb_failed_at' = -1
    /\ UNCHANGED rb_stored

-----------------------------------------------------------------------------
(*                     SLOT CONTROLLER (slot.h)                             *)
(* Only its declarations are used by the sources; the metadata rules are   *)
(* those of the specification's data model.                                *)

\* Bound: tries_remaining of a fresh slot (7 on a device).
MaxSlotTries == 2
SlotMaxPriority == 15

SlotSuffixes == <<"_a", "_b">>
SlotSet == {SlotSuffixes[i] : i \in 1..Len(SlotSuffixes)}

SlotDead == [priority |-> 0, tries_remaining |-> 0, successful_boot |-> FALSE]
SlotFresh ==
    [priority |-> SlotMaxPriority, tries_remaining |-> MaxSlotTries,
     successful_boot |-> FALSE]
SlotGood ==
    [priority |-> SlotMaxPriority, tries_remaining |-> 0,
     successful_boot |-> TRUE]
SlotMetaValues == {SlotDead, SlotFresh, SlotGood}

SlotBootable(m) ==
    m.priority > 0 /\ (m.tries_remaining > 0 \/ m.successful_boot)

\* Highest priority among the bootable slots, ties by label order.
SelectActive(sl) ==
    LET ok == {i \in 1..Len(SlotSuffixes) : SlotBootable(sl[SlotSuffixes[i]])}
    IN  IF ok = {} THEN "NULL"
        ELSE SlotSuffixes[CHOOSE i \in ok :
                 \A j \in ok :
                     \/ sl[SlotSuffixes[i]].priority > sl[SlotSuffixes[j]].priority
                     \/ /\ sl[SlotSuffixes[i]].priority = sl[SlotSuffixes[j]].priority
                        /\ i <= j]

\* slot_boot_failed on slot a: one try less, no longer successful, and
\* unbootable once no try is left.
SlotMarkFailed(m) ==
    LET t == IF m.tries_remaining > 0 THEN m.tries_remaining - 1 ELSE 0
    IN  [priority |-> IF t = 0 THEN 0 ELSE m.priority,
         tries_remaining |-> t, successful_boot |-> FALSE]

slot_boot_failed(sl, active, target) ==
    IF active = "NULL" \/ target \notin {"NORMAL_BOOT", "CHARGER"}
    THEN sl
    ELSE [sl EXCEPT ![active] = SlotMarkFailed(sl[active])]

\* slot_boot: the attempt is counted unless the slot already booted once.
slot_boot(sl, active, target) ==
    IF active = "NULL" \/ target \notin {"NORMAL_BOOT", "CHARGER"}
    THEN sl
    ELSE IF sl[active].successful_boot \/ sl[active].tries_remaining = 0
    THEN sl
    ELSE [sl EXCEPT ![active].tries_remaining = @ - 1]

-----------------------------------------------------------------------------
(*                              EFI_MAIN                                    *)

BootTargets ==
    {"NORMAL_BOOT", "RECOVERY", "FASTBOOT", "CHARGER", "POWER_OFF", "MEMORY",
     "ESP_BOOTIMAGE", "ESP_EFI_BINARY", "DNX", "CRASHMODE", "EXIT_SHELL",
     "UNKNOWN_TARGET"}

\* What choose_boot_target can hand to efi_main.
ChooseTargets == BootTargets \ {"UNKNOWN_TARGET"}

\* Answers of the UX prompts (ux_prompt_user, ux_prompt_user_for_boot_target).
UxAnswers == {"NORMAL_BOOT", "FASTBOOT", "POWER_OFF", "CRASHMODE"}

\* Build variants: eng defines neither USER nor USERDEBUG, userdebug defines
\* USERDEBUG, user defines both (the USER block sits inside the USERDEBUG one).
Builds == {"eng", "userdebug", "user"}
USER(c) == c.build = "user"
USERDEBUG(c) == c.build \in {"userdebug", "user"}

Configs ==
    [build : Builds, NO_DEVICE_UNLOCK : BOOLEAN, USE_TRUSTY : BOOLEAN,
     min_boot_state : BootStates, recovery_in_boot_partition : BOOLEAN,
     use_slot : BOOLEAN]

\* Declared target names an image can carry.
ImageNames == {"/boot", "/recovery", "/other"}
\* verify_android_boot_image yields GREEN, YELLOW or RED.
VerifyStates == {BOOT_STATE_GREEN, BOOT_STATE_YELLOW, BOOT_STATE_RED}
NoImage == [verify_state |-> BOOT_STATE_RED, name |-> "none"]

\* Mutant: the comparison with min_boot_state() is turned around.
boot_error_power_off_inverted(c, state) ==
    /\ state < c.min_boot_state
    /\ ~(~USER(c) /\ c.NO_DEVICE_UNLOCK)

\* boot_error: the value of power_off before the prompt.
boot_error_power_off(c, state) ==
    /\ state > c.min_boot_state
    /\ ~(~USER(c) /\ c.NO_DEVICE_UNLOCK)

\* Mutant: the prompt's answer alone decides; power_off is not honoured.
boot_error_lenient(c, state, bt) ==
    IF bt = "CRASHMODE" THEN "recover"
    ELSE IF bt = "POWER_OFF" THEN "halt"
    ELSE "return"

\* boot_error: "recover" enters bootloader_recover_mode, "halt" is
\* halt_system, "return" gives control back to the caller.
boot_error(c, state, bt) ==
    IF bt = "CRASHMODE" THEN "recover"
    ELSE IF boot_error_power_off(c, state) \/ bt = "POWER_OFF" THEN "halt"
    ELSE "return"

\* Mutant: expected2 is set for NORMAL_BOOT alone.
ExpectedNames_normal_only(target, recovery_in_boot) ==
    CASE target = "NORMAL_BOOT" -> {"/boot", "/recovery"}
      [] target \in {"MEMORY", "CHARGER", "ESP_BOOTIMAGE"} -> {"/boot"}
      [] target = "RECOVERY" ->
             IF recovery_in_boot THEN {"/boot"} ELSE {"/recovery"}
      [] OTHER -> {}

\* The names validate_bootimage accepts for a target.
ExpectedNames(target, recovery_in_boot) ==
    CASE target \in {"NORMAL_BOOT", "MEMORY"} -> {"/boot", "/recovery"}
      [] target = "CHARGER" -> {"/boot"}
      [] target = "RECOVERY" ->
             IF recovery_in_boot THEN {"/boot"} ELSE {"/recovery"}
      [] target = "ESP_BOOTIMAGE" -> {"/boot"}
      [] OTHER -> {}

\* Mutant: the declared name is not compared.
validate_bootimage_noname(target, verify_state, name, recovery_in_boot) ==
    verify_state

validate_bootimage(target, verify_state, name, recovery_in_boot) ==
    IF verify_state = BOOT_STATE_RED THEN verify_state
    ELSE IF name \notin ExpectedNames(target, recovery_in_boot)
    THEN BOOT_STATE_RED
    ELSE verify_state

\* Mutant: the result of validate_bootimage replaces the state in any case.
StateAfterValidate_always(state, new_boot_state) ==
    new_boot_state

\* if (boot_state != BOOT_STATE_ORANGE) boot_state = new_boot_state;
StateAfterValidate(state, new_boot_state) ==
    IF state # BOOT_STATE_ORANGE THEN new_boot_state ELSE state

\* Mutant: a failed load leaves the state as it was.
StateAfterLoadError_kept(state) == state

\* if (EFI_ERROR(ret)) boot_state = BOOT_STATE_RED;
StateAfterLoadError(state) == BOOT_STATE_RED

\* The target load_boot_image works on: RECOVERY living in the boot
\* partition is loaded as NORMAL_BOOT.
LoadTarget(c, target) ==
    IF target = "RECOVERY" /\ c.recovery_in_boot_partition
    THEN "NORMAL_BOOT"
    ELSE target

TrustyTargets == {"NORMAL_BOOT", "RECOVERY", "CHARGER", "MEMORY"}

\* load_boot_image has not run.
LoadLogNone ==
    [slotted |-> FALSE, entry |-> [x \in SlotSet |-> SlotDead], reads |-> 0,
     marked |-> <<>>]

\* The fastboot loop has been handed no boot image yet.
FbNoImage == [seen |-> FALSE, unlocked |-> FALSE]

InitMain ==
    /\ pc = "entry"
    /\ cfg \in Configs
    /\ boot_target = "NORMAL_BOOT"
    /\ boot_state = BOOT_STATE_GREEN
    /\ lock_prompted = FALSE
    /\ bootimage = "NULL"
    /\ load_ret = "EFI_SUCCESS"
    /\ image = NoImage
    /\ slots \in [SlotSet -> SlotMetaValues]
    /\ cfg.use_slot = FALSE => slots = [x \in SlotSet |-> SlotDead]
    /\ slot_active = "NULL"
    /\ recovery_tries \in 0..1
    /\ cfg.use_slot = FALSE => recovery_tries = 0
    /\ BootStateVar = -1
    /\ ux_calls = <<>>
    /\ load_failed = FALSE
    /\ load_log = LoadLogNone
    /\ slot_boot_calls = {}
    /\ started = {}
    /\ fb_image = FbNoImage
    /\ reboot_count = 0
    /\ ended = ""

\* How a boot_error outcome moves efi_main on.
AfterBootError(outcome, nextpc) ==
    /\ pc' = CASE outcome = "recover" -> "recover_mode"
               [] outcome = "halt" -> "end"
               [] OTHER -> nextpc
    /\ ended' = IF outcome = "halt" THEN "halt" ELSE ended

\* efi_main up to slot_init: a failed OpenProtocol or slot_init returns the
\* error, a firmware capsule on the ESP ends in ResetSystem.
EfiEntry ==
    /\ pc = "entry"
    /\ \E outcome \in {"open_failed", "capsule_reset", "slot_init_failed", "ok"} :
         /\ pc' = IF outcome = "ok" THEN "choose" ELSE "end"
         /\ ended' = CASE outcome = "ok" -> ""
                       [] outcome = "capsule_reset" -> "reset"
                       [] OTHER -> "returned_error"
         /\ slot_active' = IF outcome = "ok" /\ cfg.use_slot
                           THEN SelectActive(slots) ELSE "NULL"
    /\ UNCHANGED <<cfg, boot_target, boot_state, lock_prompted, bootimage,
                   load_ret, image, slots, recovery_tries, BootStateVar,
                   ux_calls, load_failed, load_log, slot_boot_calls, started,
                   fb_image, reboot_count>>

\* Mutant: EXIT_SHELL is not tested after choose_boot_target.
efi_main_after_choose_on(t, t2, rebooted) ==
    LET reboots == \/ (t = "CRASHMODE" /\ t2 # "FASTBOOT")
                   \/ t2 \in {"DNX", "CRASHMODE"}
    IN  CASE reboots /\ rebooted -> "reboot"
          [] t2 = "POWER_OFF" -> "halt"
          [] OTHER -> ""

\* How efi_main ends right after choose_boot_target returned t ("" when it
\* goes on): return EFI_SUCCESS for EXIT_SHELL, the reboots of CRASHMODE,
\* DNX and the crash-mode answer t2, halt_system for POWER_OFF.
efi_main_after_choose(t, t2, rebooted) ==
    LET reboots == \/ (t = "CRASHMODE" /\ t2 # "FASTBOOT")
                   \/ t2 \in {"DNX", "CRASHMODE"}
    IN  CASE t = "EXIT_SHELL" -> "returned_success"
          [] reboots /\ rebooted -> "reboot"
          [] t2 = "POWER_OFF" -> "halt"
          [] OTHER -> ""

\* boot_target = choose_boot_target(...) and the dispatch that follows it.
\* rebooted: reboot_to_target did reset the platform (it returns otherwise).
EfiChoose ==
    /\ pc = "choose"
    /\ \E t \in ChooseTargets, answer \in UxAnswers, rebooted \in BOOLEAN :
         LET t2 == IF t = "CRASHMODE" THEN answer ELSE t
         IN  /\ boot_target' = IF t = "EXIT_SHELL" THEN t ELSE t2
             /\ ended' = efi_main_after_choose(t, t2, rebooted)
             /\ pc' = IF ended' = "" THEN "device_state" ELSE "end"
    /\ UNCHANGED <<cfg, boot_state, lock_prompted, bootimage, load_ret, image,
                   slots, slot_active, recovery_tries, BootStateVar, ux_calls,
                   load_failed, load_log, slot_boot_calls, started,
                   fb_image, reboot_count>>

\* The device-state block: secure boot, lock state, provisioning, or the
\* RED of a build without USERDEBUG.
EfiDeviceState ==
    /\ pc = "device_state"
    /\ \E secure \in BOOLEAN, provisioning \in BOOLEAN, unlocked \in BOOLEAN,
          bt \in UxAnswers :
         IF ~USERDEBUG(cfg)
         THEN /\ boot_state' = BOOT_STATE_RED
              /\ pc' = "pre_load"
              /\ UNCHANGED <<lock_prompted, ux_calls, ended>>
         ELSE IF ~secure /\ ~provisioning
         THEN /\ boot_state' = BOOT_STATE_ORANGE
              /\ lock_prompted' = TRUE
              /\ ux_calls' = Append(ux_calls, "SECURE_BOOT_CODE")
              /\ AfterBootError(boot_error(cfg, BOOT_STATE_ORANGE, bt),
                                "pre_load")
         ELSE /\ boot_state' = IF unlocked THEN BOOT_STATE_ORANGE
                               ELSE boot_state
              /\ pc' = IF USER(cfg) /\ provisioning THEN "fastboot"
                       ELSE "pre_load"
              /\ UNCHANGED <<lock_prompted, ux_calls, ended>>
    /\ UNCHANGED <<cfg, boot_target, bootimage, load_ret, image, slots,
                   slot_active, recovery_tries, BootStateVar, load_failed, load_log,
                   slot_boot_calls, started,
                   fb_image, reboot_count>>

\* From the EFI-binary chainload to the unlocked-device warning.
EfiPreLoad ==
    /\ pc = "pre_load"
    /\ \E bt \in UxAnswers :
         IF boot_target = "ESP_EFI_BINARY"
         THEN /\ pc' = "end" /\ ended' = "reboot"
              /\ UNCHANGED ux_calls
         ELSE IF boot_target = "FASTBOOT"
         THEN /\ pc' = "fastboot"
              /\ UNCHANGED <<ux_calls, ended>>
         ELSE IF boot_state = BOOT_STATE_ORANGE /\ ~lock_prompted
         THEN /\ ux_calls' = Append(ux_calls, "DEVICE_UNLOCKED_CODE")
              /\ AfterBootError(boot_error(cfg, boot_state, bt), "load")
         ELSE /\ pc' = "load"
              /\ UNCHANGED <<ux_calls, ended>>
    /\ UNCHANGED <<cfg, boot_target, boot_state, lock_prompted, bootimage,
                   load_ret, image, slots, slot_active, recovery_tries,
                   BootStateVar, load_failed, load_log, slot_boot_calls, started,
                   fb_image, reboot_count>>

\* load_boot_image: the switch on the target, up to the slot loop.
EfiLoadBegin ==
    /\ pc = "load"
    /\ \E read_ok \in BOOLEAN :
         LET t == LoadTarget(cfg, boot_target)
         IN  IF t \in {"NORMAL_BOOT", "CHARGER"}
             THEN IF cfg.use_slot /\ slot_active = "NULL"
                  THEN /\ load_ret' = "EFI_NOT_FOUND" /\ pc' = "loaded"
                       /\ UNCHANGED bootimage
                  ELSE /\ pc' = "load_slot"
                       /\ UNCHANGED <<load_ret, bootimage>>
             ELSE IF t = "RECOVERY" /\ cfg.use_slot /\ recovery_tries = 0
             THEN /\ load_ret' = "EFI_NOT_FOUND" /\ pc' = "loaded"
                  /\ UNCHANGED bootimage
             ELSE IF t \in {"RECOVERY", "ESP_BOOTIMAGE"}
             THEN /\ load_ret' = IF read_ok THEN "EFI_SUCCESS"
                                 ELSE "EFI_NOT_FOUND"
                  /\ bootimage' = IF read_ok THEN "image" ELSE "NULL"
                  /\ pc' = "loaded"
             ELSE /\ load_ret' = "EFI_INVALID_PARAMETER"
                  /\ bootimage' = "NULL"
                  /\ pc' = "loaded"
    /\ load_log' = [slotted |-> /\ cfg.use_slot
                                /\ LoadTarget(cfg, boot_target)
                                       \in {"NORMAL_BOOT", "CHARGER"},
                    entry |-> slots, reads |-> 0, marked |-> <<>>]
    /\ UNCHANGED <<cfg, boot_target, boot_state, lock_prompted, image, slots,
                   slot_active, recovery_tries, BootStateVar, ux_calls,
                   load_failed, slot_boot_calls, started,
                   fb_image, reboot_count, ended>>

\* Mutant: the loop is left after the first read.
load_slot_again_never(ret, active) ==
    FALSE

\* while (EFI_ERROR(ret) && slot_get_active())
load_slot_again(ret, active) ==
    EFI_ERROR(ret) /\ active # "NULL"

\* One pass of the do-while loop: read the active slot's boot partition; on
\* failure mark the slot failed and go on while a slot is active.
EfiLoadSlot ==
    /\ pc = "load_slot"
    /\ \E read_ok \in BOOLEAN :
         IF read_ok
         THEN /\ load_ret' = "EFI_SUCCESS"
              /\ bootimage' = "image"
              /\ pc' = "loaded"
              /\ load_log' = [load_log EXCEPT !.reads = @ + 1]
              /\ UNCHANGED <<slots, slot_active>>
         ELSE /\ load_ret' = "EFI_NOT_FOUND"
              /\ bootimage' = "NULL"
              /\ slots' = IF cfg.use_slot
                          THEN slot_boot_failed(slots, slot_active,
                                                LoadTarget(cfg, boot_target))
                          ELSE slots
              /\ slot_active' = IF cfg.use_slot THEN SelectActive(slots')
                                ELSE slot_active
              /\ load_log' =
                     [load_log EXCEPT
                          !.reads = @ + 1,
                          !.marked = IF cfg.use_slot
                                     THEN Append(@, slot_active) ELSE @]
              /\ pc' = IF load_slot_again(load_ret', slot_active')
                       THEN "load_slot" ELSE "loaded"
    /\ UNCHANGED <<cfg, boot_target, boot_state, lock_prompted, image,
                   recovery_tries, BootStateVar, ux_calls, load_failed,
                   slot_boot_calls, started,
                   fb_image, reboot_count, ended>>

\* The result of the load: RED on error, else the validation result unless
\* the state is ORANGE.
EfiValidate ==
    /\ pc = "loaded"
    /\ \E vs \in VerifyStates, name \in ImageNames :
         IF EFI_ERROR(load_ret)
         THEN /\ boot_state' = StateAfterLoadError(boot_state)
              /\ load_failed' = TRUE
              /\ UNCHANGED image
         ELSE /\ image' = [verify_state |-> vs, name |-> name]
              /\ boot_state' =
                     StateAfterValidate(boot_state,
                         validate_bootimage(boot_target, vs, name,
                             cfg.recovery_in_boot_partition))
              /\ UNCHANGED load_failed
    /\ pc' = "check_state"
    /\ UNCHANGED <<cfg, boot_target, lock_prompted, bootimage, load_ret, slots,
                   slot_active, recovery_tries, BootStateVar, ux_calls,
                   load_log, slot_boot_calls, started,
                   fb_image, reboot_count, ended>>

\* The YELLOW and RED prompts before the image is started.
EfiCheckState ==
    /\ pc = "check_state"
    /\ \E bt \in UxAnswers :
         IF boot_state = BOOT_STATE_YELLOW
         THEN /\ ux_calls' = Append(ux_calls, "BOOTIMAGE_UNTRUSTED_CODE")
              /\ AfterBootError(boot_error(cfg, boot_state, bt), "start")
         ELSE IF boot_state = BOOT_STATE_RED
         THEN /\ ux_calls' = Append(ux_calls,
                                IF boot_target = "RECOVERY"
                                THEN "BAD_RECOVERY_CODE"
                                ELSE "RED_STATE_CODE")
              /\ AfterBootError(boot_error(cfg, boot_state, bt), "start")
         ELSE /\ pc' = "start"
              /\ UNCHANGED <<ux_calls, ended>>
    /\ UNCHANGED <<cfg, boot_target, boot_state, lock_prompted, bootimage,
                   load_ret, image, slots, slot_active, recovery_tries,
                   BootStateVar, load_failed, load_log, slot_boot_calls, started,
                   fb_image, reboot_count>>

\* load_image(bootimage, state, target): BootState is written, the trusted OS
\* is started where built in, slot_boot counts the attempt, the image is
\* started; if the start returns, slot_boot_failed runs and load_image
\* returns to retpc.
\* Mutant: the BootState variable is left as it is.
set_boot_state_var_skipped(state) ==
    BootStateVar

\* set_efi_variable(&fastboot_guid, BOOT_STATE_VAR, ..., &boot_state, ...)
set_boot_state_var(state) ==
    state

\* The end of load_image by what its calls return; start_ret is "handoff"
\* when android_image_start_buffer does not come back.
load_image_outcome(trusty_dies, slot_boot_ret, start_ret) ==
    IF trusty_dies THEN "die"
    ELSE IF EFI_ERROR(slot_boot_ret) THEN "slot_boot_error"
    ELSE IF start_ret = "handoff" THEN "handoff"
    ELSE "start_returned"

\* The calls load_image makes from slot_boot on, in their order.
load_image_calls(outcome) ==
    CASE outcome = "die" -> <<>>
      [] outcome = "slot_boot_error" -> <<"slot_boot">>
      [] outcome = "handoff" -> <<"slot_boot", "android_image_start_buffer">>
      [] outcome = "start_returned" ->
             <<"slot_boot", "android_image_start_buffer", "slot_boot_failed">>

\* Mutant: the error of the failed start is returned.
load_image_ret_of_start(outcome, slot_boot_ret, start_ret, failed_ret) ==
    CASE outcome = "slot_boot_error" -> slot_boot_ret
      [] outcome = "start_returned" -> start_ret
      [] OTHER -> "none"

\* What load_image returns ("none" when it does not return).
load_image_ret(outcome, slot_boot_ret, start_ret, failed_ret) ==
    CASE outcome = "slot_boot_error" -> slot_boot_ret
      [] outcome = "start_returned" -> failed_ret
      [] OTHER -> "none"

\* Whether the call is among those load_image made.
LoadImageCalled(outcome, name) ==
    \E i \in 1..Len(load_image_calls(outcome)) :
        load_image_calls(outcome)[i] = name

\* validated: what validate_bootimage made of this image.
load_image(by, img, validated, state, target, retpc) ==
    \E outcome \in {"die", "slot_boot_error", "handoff", "start_returned"} :
        LET trusty == cfg.USE_TRUSTY /\ target \in TrustyTargets
            booted == slot_boot(slots, slot_active, target)
        IN  /\ outcome = "die" => trusty
            /\ (trusty /\ state = BOOT_STATE_RED /\ USERDEBUG(cfg))
                   => outcome = "die"
            /\ BootStateVar' = set_boot_state_var(state)
            /\ slot_boot_calls' = IF LoadImageCalled(outcome, "slot_boot")
                                  THEN slot_boot_calls \cup {by}
                                  ELSE slot_boot_calls
            /\ started' = IF LoadImageCalled(outcome,
                                             "android_image_start_buffer")
                          THEN started \cup {[by |-> by, boot_state |-> state,
                                              target |-> target, image |-> img,
                                              validated |-> validated,
                                              BootState |-> BootStateVar']}
                          ELSE started
            /\ slots' = IF LoadImageCalled(outcome, "slot_boot_failed")
                         THEN slot_boot_failed(booted, slot_active, target)
                         ELSE IF outcome = "handoff" THEN booted
                         ELSE slots
            /\ slot_active' = IF outcome = "start_returned" /\ cfg.use_slot
                              THEN SelectActive(slots')
                              ELSE slot_active
            /\ ended' = CASE outcome = "die" -> "halt"
                          [] outcome = "handoff" -> "handoff"
                          [] OTHER -> ended
            /\ pc' = IF outcome \in {"die", "handoff"} THEN "end" ELSE retpc

\* efi_main starts the image it loaded.
EfiStart ==
    /\ pc = "start"
    /\ load_image("efi_main", bootimage,
                  validate_bootimage(boot_target, image.verify_state,
                                     image.name,
                                     cfg.recovery_in_boot_partition),
                  boot_state, boot_target, "after")
    /\ UNCHANGED <<cfg, boot_target, boot_state, lock_prompted, bootimage,
                   load_ret, image, recovery_tries, ux_calls, load_failed,
                   load_log, fb_image, reboot_count>>

\* Mutant: the reboot is tried whatever the slots report.
reboot_after_failed_start_always(target, in_boot, active, tries) ==
    target \in {"NORMAL_BOOT", "CHARGER", "RECOVERY"}

\* The switch of efi_main after load_image returned: whether
\* reboot_to_target(boot_target) is called.
reboot_after_failed_start(target, in_boot, active, tries) ==
    CASE target \in {"NORMAL_BOOT", "CHARGER"} -> active # "NULL"
      [] target = "RECOVERY" ->
             IF in_boot THEN active # "NULL" ELSE tries > 0
      [] OTHER -> FALSE

\* load_image returned: reboot to the same target while something is still
\* bootable, else bootloader_recover_mode.
EfiAfter ==
    /\ pc = "after"
    /\ \E rebooted \in BOOLEAN :
         LET retry == reboot_after_failed_start(boot_target,
                          cfg.recovery_in_boot_partition, slot_active,
                          recovery_tries)
         IN  IF retry /\ rebooted
             THEN pc' = "end" /\ ended' = "reboot"
             ELSE pc' = "recover_mode" /\ UNCHANGED ended
    /\ UNCHANGED <<cfg, boot_target, boot_state, lock_prompted, bootimage,
                   load_ret, image, slots, slot_active, recovery_tries,
                   BootStateVar, ux_calls, load_failed, load_log, slot_boot_calls,
                   started,
                   fb_image, reboot_count>>

\* bootloader_recover_mode and enter_fastboot_mode never return to efi_main:
\* the locals of its frame that they were not passed are dead from there on.
DropFrame ==
    /\ lock_prompted' = FALSE
    /\ bootimage' = "NULL"
    /\ load_ret' = "EFI_SUCCESS"
    /\ image' = NoImage

\* bootloader_recover_mode: the user picks a target; FASTBOOT enters the
\* fastboot loop, anything else reboots, and die() follows a failed reboot.
RecoverMode ==
    /\ pc = "recover_mode"
    /\ \E target \in UxAnswers, rebooted \in BOOLEAN :
         IF target = "FASTBOOT"
         THEN pc' = "fastboot" /\ UNCHANGED ended
         ELSE /\ pc' = "end"
              /\ ended' = IF rebooted /\ target # "POWER_OFF" THEN "reboot"
                          ELSE "halt"
    /\ DropFrame
    /\ UNCHANGED <<cfg, boot_target, boot_state, slots, slot_active,
                   recovery_tries, BootStateVar, ux_calls, load_failed, load_log,
                   slot_boot_calls, started,
                   fb_image, reboot_count>>

\* enter_fastboot_mode(boot_state): BootState is written before the loop.
FastbootEnter ==
    /\ pc = "fastboot"
    /\ BootStateVar' = set_boot_state_var(boot_state)
    /\ pc' = "fastboot_loop"
    /\ DropFrame
    /\ UNCHANGED <<cfg, boot_target, boot_state, slots, slot_active,
                   recovery_tries, ux_calls, load_failed, load_log, slot_boot_calls,
                   started,
                   fb_image, reboot_count, ended>>

\* fastboot_start failed: the loop is left and die() halts.
FastbootError ==
    /\ pc = "fastboot_loop"
    /\ pc' = "end"
    /\ ended' = "halt"
    /\ UNCHANGED <<cfg, boot_target, boot_state, lock_prompted, bootimage,
                   load_ret, image, slots, slot_active, recovery_tries,
                   BootStateVar, ux_calls, load_failed, load_log, slot_boot_calls,
                   started,
                   fb_image, reboot_count>>

\* Images 'fastboot boot' sends: one that verifies, one with a bad
\* signature, one that declares another target.
FastbootImages ==
    {[verify_state |-> BOOT_STATE_GREEN, name |-> "/boot"],
     [verify_state |-> BOOT_STATE_RED, name |-> "/boot"],
     [verify_state |-> BOOT_STATE_GREEN, name |-> "/other"]}

\* Mutant: the image is started with what validate_bootimage returned.
fastboot_image_state_validated(validated) ==
    validated

\* load_image(bootimage, BOOT_STATE_ORANGE, MEMORY, verifier_cert): the value
\* validate_bootimage returned is not looked at.
fastboot_image_state(validated) ==
    BOOT_STATE_ORANGE

\* Mutant: the image is started whatever device_is_unlocked() says.
fastboot_boot_allowed_always(unlocked) == TRUE

\* 'fastboot boot' case, only allowed on unlocked devices.
fastboot_boot_allowed(unlocked) == unlocked

\* fastboot_start handed back a boot image: on an unlocked device it is
\* validated as MEMORY, the result is dropped, and it is started with ORANGE;
\* on any other device it is freed and the loop goes on.
FastbootBootImage ==
    /\ pc = "fastboot_loop"
    /\ \E unlocked \in BOOLEAN :
         /\ fb_image' = [seen |-> TRUE, unlocked |-> unlocked]
         /\ IF fastboot_boot_allowed(unlocked)
            THEN \E img \in FastbootImages :
                     LET validated ==
                             validate_bootimage("MEMORY", img.verify_state,
                                 img.name, cfg.recovery_in_boot_partition)
                     IN  load_image("fastboot", "image", validated,
                                    fastboot_image_state(validated), "MEMORY",
                                    "fastboot_loop")
            ELSE UNCHANGED <<pc, BootStateVar, slot_boot_calls, started,
                             slots, slot_active, ended>>
    /\ UNCHANGED <<cfg, boot_target, boot_state, lock_prompted, bootimage,
                   load_ret, image, recovery_tries, ux_calls, load_failed,
                   load_log, reboot_count>>

\* An iteration that starts nothing: an EFI image that came back, CRASHMODE
\* answered with FASTBOOT, no target, or a reboot_to_target that returned.
FastbootContinue ==
    /\ pc = "fastboot_loop"
    /\ UNCHANGED varsMain

\* A target was chosen and reboot_to_target reset the platform.
FastbootReboot ==
    /\ pc = "fastboot_loop"
    /\ \E target \in BootTargets \ {"UNKNOWN_TARGET"}, answer \in UxAnswers :
         LET t == IF target = "CRASHMODE" THEN answer ELSE target
         IN  /\ ~(target = "CRASHMODE" /\ t = "FASTBOOT")
             /\ pc' = "end"
             /\ ended' = IF t = "POWER_OFF" THEN "halt" ELSE "reboot"
    /\ UNCHANGED <<cfg, boot_target, boot_state, lock_prompted, bootimage,
                   load_ret, image, slots, slot_active, recovery_tries,
                   BootStateVar, ux_calls, load_failed, load_log, slot_boot_calls,
                   started,
                   fb_image, reboot_count>>

-----------------------------------------------------------------------------
(*                 TARGET SELECTOR: choose_boot_target                      *)

\* Longest argument vector given to the loader.
MaxArgc == 3

EFI_RESET_WAIT_MS == 200
DETECT_KEY_STALL_TIME_MS == 1
FASTBOOT_HOLD_DELAY == 2 * 1000
WATCHDOG_DELAY == 10 * 60

WakeSources ==
    {"WAKE_NOT_APPLICABLE", "WAKE_BATTERY_INSERTED",
     "WAKE_USB_CHARGER_INSERTED", "WAKE_ACDC_CHARGER_INSERTED"}

ChooseEnvs ==
    [USER : BOOLEAN, off_mode_charge : BOOLEAN, wake_source : WakeSources]

\* name_to_boot_target: the static table of target names.
NameToTarget ==
    [n \in {"boot", "recovery", "fastboot", "bootloader", "charging", "dnx",
            "crashmode"} |->
        CASE n = "boot" -> "NORMAL_BOOT"
          [] n = "recovery" -> "RECOVERY"
          [] n \in {"fastboot", "bootloader"} -> "FASTBOOT"
          [] n = "charging" -> "CHARGER"
          [] n = "dnx" -> "DNX"
          [] n = "crashmode" -> "CRASHMODE"]

name_to_boot_target(name) ==
    IF name \in DOMAIN NameToTarget THEN NameToTarget[name]
    ELSE "UNKNOWN_TARGET"

\* ---- check_command_line
ArgTokens == {"kernelflinger.efi", "-f", "-a", "-U", "0x1000"}
Argvs == UNION {[1..n -> ArgTokens] : n \in 0..MaxArgc}

\* Mutant: an argument that is not recognised is passed over wherever it is.
ArgumentSkipped_anywhere(pos) == TRUE

\* An argument that is not recognised is passed over at position 0 (the
\* image name) and ends the loop anywhere else.
ArgumentSkipped(pos) == pos = 0

\* The for loop of check_command_line from index pos (0-based) with bt so far.
RECURSIVE check_command_line_loop(_, _, _, _)
check_command_line_loop(argv, pos, bt, user) ==
    IF pos >= Len(argv) THEN bt
    ELSE LET arg == argv[pos + 1]
         IN  IF arg = "-f"
             THEN check_command_line_loop(argv, pos + 1, "FASTBOOT", user)
             ELSE IF ~user /\ arg = "-U" THEN "EXIT_SHELL"
             ELSE IF arg = "-a"
             THEN IF pos + 1 >= Len(argv) THEN bt
                  ELSE check_command_line_loop(argv, pos + 2, "FASTBOOT", user)
             ELSE IF ArgumentSkipped(pos)
             THEN check_command_line_loop(argv, pos + 1, bt, user)
             ELSE bt

\* Mutant: the status of get_argv is not looked at.
check_command_line_unchecked(argv_error, argv, user) ==
    check_command_line_loop(argv, 0, "NORMAL_BOOT", user)

check_command_line(argv_error, argv, user) ==
    IF argv_error THEN "NORMAL_BOOT"
    ELSE check_command_line_loop(argv, 0, "NORMAL_BOOT", user)

\* ---- check_fastboot_sentinel
\* Mutant: the sentinel file is not looked at.
check_fastboot_sentinel_blind(sentinel_exists) == "NORMAL_BOOT"

check_fastboot_sentinel(sentinel_exists) ==
    IF sentinel_exists THEN "FASTBOOT" ELSE "NORMAL_BOOT"

\* ---- check_magic_key
\* MagicKeyTimeout as read from the variable store, -1 when the read fails.
MagicKeyTimeouts == {-1, 0, 200, 500, 1000, 1001}
\* Time in ms at which ReadKeyStroke first has a key, -1 if it never has.
KeyTimes == {-1, 0, 200, 201, 1000}
\* How long the key stays down once seen.
HeldTimes == {0, FASTBOOT_HOLD_DELAY - 1, FASTBOOT_HOLD_DELAY}

\* Mutant: a timeout of exactly 1000 ms is taken for pathological too.
MagicKeyWait_below(timeout_var) ==
    IF timeout_var < 0 THEN EFI_RESET_WAIT_MS
    ELSE IF timeout_var >= 1000 THEN EFI_RESET_WAIT_MS
    ELSE timeout_var

MagicKeyWait(timeout_var) ==
    IF timeout_var < 0 THEN EFI_RESET_WAIT_MS
    ELSE IF timeout_var > 1000 THEN EFI_RESET_WAIT_MS
    ELSE timeout_var

\* The polling loop reads at i = 0, 1, ... wait_ms and stops at the first
\* success: a key is read if one is there at a polling instant <= wait_ms.
KeySeen(key_time, wait_ms) ==
    /\ key_time >= 0
    /\ \E i \in {key_time + d : d \in 0..(DETECT_KEY_STALL_TIME_MS - 1)} :
           i % DETECT_KEY_STALL_TIME_MS = 0 /\ i <= wait_ms

\* What follows the polling loop: key_read is !EFI_ERROR(ret).
magic_key_target(key_read, is_magic, held_ms) ==
    IF ~key_read THEN "NORMAL_BOOT"
    ELSE IF ~is_magic THEN "NORMAL_BOOT"
    ELSE IF held_ms >= FASTBOOT_HOLD_DELAY THEN "FASTBOOT"
    ELSE "NORMAL_BOOT"

check_magic_key(timeout_var, key_time, is_magic, held_ms) ==
    magic_key_target(KeySeen(key_time, MagicKeyWait(timeout_var)), is_magic,
                     held_ms)

\* check_magic_key step by step: the variable read, each pass of the polling
\* loop, the decision.
InitMk ==
    mk \in [pc : {"entry"}, timeout_var : MagicKeyTimeouts,
            key_time : KeyTimes, is_magic : BOOLEAN, held_ms : HeldTimes,
            wait_ms : {EFI_RESET_WAIT_MS}, i : {0}, reads : {0},
            stalls : {0}, key_read : {FALSE}, ret : {"NORMAL_BOOT"}]

MkReadTimeout ==
    /\ mk.pc = "entry"
    /\ mk' = [mk EXCEPT !.pc = "poll",
                        !.wait_ms = MagicKeyWait(mk.timeout_var)]
    /\ UNCHANGED fn

\* One pass: ReadKeyStroke, then leave on success or at i == wait_ms, else
\* Stall for DETECT_KEY_STALL_TIME_MS and go on.
MkPoll ==
    /\ mk.pc = "poll"
    /\ mk.i <= mk.wait_ms
    /\ LET success == mk.key_time >= 0 /\ mk.key_time <= mk.i
       IN  IF success \/ mk.i = mk.wait_ms
           THEN mk' = [mk EXCEPT !.pc = "polled", !.reads = @ + 1,
                                 !.key_read = success]
           ELSE mk' = [mk EXCEPT !.reads = @ + 1, !.stalls = @ + 1,
                                 !.i = @ + DETECT_KEY_STALL_TIME_MS]
    /\ UNCHANGED fn

MkDecide ==
    /\ mk.pc = "polled"
    /\ mk' = [mk EXCEPT !.pc = "done",
                        !.ret = magic_key_target(mk.key_read, mk.is_magic,
                                                 mk.held_ms)]
    /\ UNCHANGED fn

\* ---- check_watchdog
\* Longest tolerated run of watchdog resets, get_watchdog_counter_max().
WatchdogCounterMaxValues == {1, 2}
\* UINT8 counter as found in the variable store.
WatchdogCounters == {0, 1, 2, 255}
\* Wall-clock seconds.
WatchdogTimes == {0, 100, 700, 701}
RebootReasons == {"", "kernel_panic", "watchdog", "shutdown"}
\* The firmware call of check_watchdog that fails, if any.  Every failure
\* either leaves the function or is its last call, so one per run is all
\* a run can see.
WatchdogFailures ==
    {"none", "get_watchdog_status", "GetTime", "set_watchdog_time_reference",
     "set_watchdog_counter", "reset_watchdog_status"}
WatchdogInputs ==
    [crash_event_menu : BOOLEAN, failure : WatchdogFailures,
     watchdog_reset_source : BOOLEAN, reboot_reason : RebootReasons,
     now : WatchdogTimes, counter_max : WatchdogCounterMaxValues,
     answer : UxAnswers]
WatchdogStatusValues ==
    [counter : WatchdogCounters, time_ref : WatchdogTimes \ {701}]

\* reset_watchdog_status: counter and time reference are removed.
WatchdogStatusReset == [counter |-> 0, time_ref |-> 0]

\* check_watchdog has not run: the variable store has not been looked at.
WatchdogUnread ==
    [run |-> FALSE, status |-> WatchdogStatusReset, reason_deleted |-> FALSE]

reset_is_due_to_watchdog_or_panic(watchdog_reset_source, reason) ==
    \/ watchdog_reset_source
    \/ reason \in {"kernel_panic", "watchdog"}

\* The resets counted so far are forgotten: the clock is behind the time
\* reference, or more than WATCHDOG_DELAY seconds past it.
watchdog_delay_over_inclusive(now, time_ref) ==
    now < time_ref \/ now - time_ref >= WATCHDOG_DELAY
watchdog_delay_over(now, time_ref) ==
    now < time_ref \/ now - time_ref > WATCHDOG_DELAY

\* The incremented counter is stored and the boot goes on; above the
\* allowed maximum the crash event menu comes up instead.
watchdog_counter_stored_below(counter, counter_max) ==
    counter < counter_max
watchdog_counter_stored(counter, counter_max) ==
    counter <= counter_max

\* Mutant: the counter is stored as it was before the increment.
watchdog_counter_incremented_late(counter) == counter

\* counter++ on the UINT8 local.
watchdog_counter_incremented(counter) == (counter + 1) % 256

\* Mutant: a reset of another kind leaves the counted resets in place.
watchdog_status_other_reset_kept(wd, failure) == wd

\* The reset is not due to a watchdog or panic: a counter above 0 is reset
\* if (counter != 0) reset_watchdog_status(), unless that call fails.
watchdog_status_other_reset(wd, failure) ==
    IF wd.counter # 0 /\ failure # "reset_watchdog_status"
    THEN WatchdogStatusReset
    ELSE wd

\* Returns the target, the persisted status, whether the reboot reason was
\* deleted, whether the crash event menu was shown and whether
\* get_watchdog_status was called.
check_watchdog(user, in, wd) ==
    LET leave == [ret |-> "NORMAL_BOOT", wd |-> wd, reason_deleted |-> FALSE,
                  prompted |-> FALSE, status_read |-> TRUE]
    IN
    IF ~in.crash_event_menu THEN [leave EXCEPT !.status_read = FALSE]
    ELSE IF in.failure = "get_watchdog_status" THEN leave
    ELSE IF ~reset_is_due_to_watchdog_or_panic(in.watchdog_reset_source,
                                               in.reboot_reason)
    THEN [leave EXCEPT !.wd = watchdog_status_other_reset(wd, in.failure)]
    ELSE IF user /\ in.reboot_reason = "shutdown"
    THEN [leave EXCEPT !.ret = "POWER_OFF", !.reason_deleted = TRUE]
    ELSE IF in.failure = "GetTime" THEN leave
    ELSE
    LET counter0 ==
            IF wd.counter > 0 /\ watchdog_delay_over(in.now, wd.time_ref)
            THEN 0 ELSE wd.counter
    IN
    IF counter0 = 0 /\ in.failure = "set_watchdog_time_reference" THEN leave
    ELSE
    LET wd_ref == IF counter0 = 0 THEN [wd EXCEPT !.time_ref = in.now] ELSE wd
        counter1 == watchdog_counter_incremented(counter0)
    IN
    IF watchdog_counter_stored(counter1, in.counter_max)
    THEN [leave EXCEPT !.wd = IF in.failure = "set_watchdog_counter"
                              THEN wd_ref
                              ELSE [wd_ref EXCEPT !.counter = counter1]]
    ELSE [ret |-> in.answer,
          wd |-> IF in.failure = "reset_watchdog_status"
                 THEN wd_ref ELSE WatchdogStatusReset,
          reason_deleted |-> FALSE, prompted |-> TRUE, status_read |-> TRUE]

\* ---- check_battery_inserted
check_battery_inserted(env) ==
    IF ~env.off_mode_charge THEN "NORMAL_BOOT"
    ELSE IF env.wake_source = "WAKE_BATTERY_INSERTED" THEN "POWER_OFF"
    ELSE "NORMAL_BOOT"

\* ---- check_bcb
\* What follows "boot-" / "bootonce-" in bcb.command: its text for the name
\* table, whether it starts with a backslash, its length and last 4 chars.
BcbTarget(name, backslash, len, last4) ==
    [name |-> name, backslash |-> backslash, len |-> len, last4 |-> last4]
BcbTargets ==
    {BcbTarget("recovery", FALSE, 8, "very"),
     BcbTarget("fastboot", FALSE, 8, "boot"),
     BcbTarget("dnx", FALSE, 3, "dnx"),
     BcbTarget("bogus", FALSE, 5, "ogus"),
     BcbTarget("\\a.efi", TRUE, 6, ".efi"),
     BcbTarget("\\a.EFI", TRUE, 6, ".EFI"),
     BcbTarget("\\a.Efi", TRUE, 6, ".Efi"),
     BcbTarget("\\boot.img", TRUE, 9, ".img"),
     BcbTarget("\\abc", TRUE, 4, "\\abc")}
NoBcbTarget == BcbTarget("", FALSE, 0, "")
BcbCommands ==
    {[prefix |-> "", target |-> NoBcbTarget]}
    \cup [prefix : {"boot-", "bootonce-"}, target : BcbTargets]
\* The recovery field (the stage field is handled the same way).
BcbRecoveryValues == {"", "recovery --wipe_data"}
BcbValues ==
    [status_set : BOOLEAN, command : BcbCommands,
     recovery : BcbRecoveryValues]
EmptyBcb ==
    [status_set |-> FALSE,
     command |-> [prefix |-> "", target |-> NoBcbTarget], recovery |-> ""]

\* check_bcb has not run: misc has not been looked at.
BcbUnread ==
    [state |-> "unread", found |-> EmptyBcb, left |-> EmptyBcb,
     write |-> "none"]

\* Mutant: the struct is written back on every run.
BcbDirty_always(bcb) == TRUE

\* dirty: the struct read differs from the one to write back.
BcbDirty(bcb) == bcb.status_set \/ bcb.command.prefix = "bootonce-"

\* Mutant: the whole struct is zeroed before the write-back.
BcbCleared_wipe(bcb) == EmptyBcb

\* The struct in memory after status[0] = 0 and, for bootonce-, command[0] = 0.
BcbCleared(bcb) ==
    [bcb EXCEPT !.status_set = FALSE,
                !.command = IF bcb.command.prefix = "bootonce-"
                            THEN [prefix |-> "", target |-> NoBcbTarget]
                            ELSE @]

\* Mutant: only the lower-case suffix is taken for an EFI binary.
BcbPathTarget_lower(last4) ==
    IF last4 = ".efi" THEN "ESP_EFI_BINARY" ELSE "ESP_BOOTIMAGE"

\* The target of an existing path longer than 4 characters.
BcbPathTarget(last4) ==
    IF last4 \in {".efi", ".EFI"} THEN "ESP_EFI_BINARY" ELSE "ESP_BOOTIMAGE"

\* Returns the target, *target_path, *oneshot, the BCB left on misc and what
\* became of the write-back ("none" when write_bcb is not called).
check_bcb(read_error, write_error, target_exists, bcb) ==
    IF read_error
    THEN [ret |-> "NORMAL_BOOT", target_path |-> "NULL", oneshot |-> FALSE,
          bcb |-> bcb, write |-> "none"]
    ELSE
    LET once == bcb.command.prefix = "bootonce-"
        has_target == bcb.command.prefix # ""
        target == bcb.command.target
        dirty == BcbDirty(bcb)
        after == IF dirty /\ ~write_error THEN BcbCleared(bcb) ELSE bcb
        named == name_to_boot_target(target.name)
        r == IF ~has_target THEN <<"NORMAL_BOOT", "NULL">>
             ELSE IF target.backslash
             THEN IF ~target_exists THEN <<"NORMAL_BOOT", "NULL">>
                  ELSE IF target.len > 4
                  THEN <<BcbPathTarget(target.last4), target.name>>
                  ELSE <<"NORMAL_BOOT", "NULL">>
             ELSE IF named # "UNKNOWN_TARGET" THEN <<named, "NULL">>
             ELSE <<"NORMAL_BOOT", "NULL">>
    IN [ret |-> r[1], target_path |-> r[2], oneshot |-> once, bcb |-> after,
        write |-> IF ~dirty THEN "none"
                  ELSE IF write_error THEN "error" ELSE "ok"]

\* ---- check_loader_entry_one_shot
\* LoaderEntryOneShot: "" when the variable is not set.
OneShotValues ==
    {"", "recovery", "fastboot", "charging", "dnx", "crashmode",
     "dm-verity device corrupted", "bogus"}

\* Mutant: a CHARGER target is returned whatever the off-mode-charge setting.
check_loader_entry_one_shot_charger(value, delete_error, verity_error, env) ==
    LET named == name_to_boot_target(value)
    IN  [var |-> IF delete_error THEN value ELSE "",
         verity |-> value = "dm-verity device corrupted" /\ ~verity_error,
         verity_calls |-> IF value = "dm-verity device corrupted" THEN 1
                          ELSE 0,
         ret |-> IF value = "" \/ named = "UNKNOWN_TARGET" THEN "NORMAL_BOOT"
                 ELSE named]

\* Returns the target, the variable left behind, whether the verity flag of
\* the active slot was set and how often slot_set_verity_corrupted was called.
check_loader_entry_one_shot(value, delete_error, verity_error, env) ==
    LET named == name_to_boot_target(value)
        left == IF delete_error THEN value ELSE ""
    IN  [var |-> left,
         verity |-> /\ value = "dm-verity device corrupted"
                    /\ ~verity_error,
         verity_calls |-> IF value = "dm-verity device corrupted" THEN 1
                          ELSE 0,
         ret |-> IF value = "" THEN "NORMAL_BOOT"
                 ELSE IF named = "UNKNOWN_TARGET" THEN "NORMAL_BOOT"
                 ELSE IF named = "CHARGER" /\ ~env.off_mode_charge
                 THEN "POWER_OFF"
                 ELSE named]

\* ---- check_battery
\* check_battery has not run.  The charger is looked at only for a battery
\* below the threshold.
BatteryUnread ==
    [read |-> FALSE, below_threshold |-> FALSE, charger_plugged |-> FALSE]

\* Mutant: the off-mode-charge setting is not consulted.
check_battery_always(below_threshold, charger_plugged, env) ==
    IF below_threshold
    THEN IF charger_plugged THEN "CHARGER" ELSE "POWER_OFF"
    ELSE "NORMAL_BOOT"

check_battery(below_threshold, charger_plugged, env) ==
    IF ~env.off_mode_charge THEN "NORMAL_BOOT"
    ELSE IF below_threshold
    THEN IF charger_plugged THEN "CHARGER" ELSE "POWER_OFF"
    ELSE "NORMAL_BOOT"

\* ---- check_charge_mode
check_charge_mode(env) ==
    IF ~env.off_mode_charge THEN "NORMAL_BOOT"
    ELSE IF env.wake_source \in {"WAKE_USB_CHARGER_INSERTED",
                                 "WAKE_ACDC_CHARGER_INSERTED"}
    THEN "CHARGER"
    ELSE "NORMAL_BOOT"

\* ---- choose_boot_target
\* The state at the first check: *target_path = NULL, *oneshot = TRUE.
InitChoose ==
    /\ ch_pc = "command_line"
    /\ ch_env \in ChooseEnvs
    /\ ch_ret = "none"
    /\ ch_log = <<>>
    /\ ch_target_path = "NULL"
    /\ ch_oneshot = TRUE
    /\ ch_bcb = BcbUnread
    /\ ch_oneshot_var = "unread"
    /\ ch_wd = WatchdogUnread
    /\ ch_verity_corrupted = FALSE
    /\ ch_ux = <<>>
    /\ ch_sentinel = "unread"
    /\ ch_battery = BatteryUnread

\* ret = check_...(); then goto out or fall to the next check.
ChooseStep(check, r, goes_out, next_check) ==
    /\ ch_ret' = r
    /\ ch_log' = Append(ch_log, [check |-> check, ret |-> r])
    /\ ch_pc' = IF goes_out THEN "out" ELSE next_check

\* if (ret != NORMAL_BOOT) goto out;
GoesOut(r) == r # "NORMAL_BOOT"

\* Mutant: the test after the one-shot check is the test of the other checks.
OneShotGoesOut_any(r) == r # "NORMAL_BOOT"

\* if (ret != DNX && ret != NORMAL_BOOT) goto out;
OneShotGoesOut(r) == r # "DNX" /\ r # "NORMAL_BOOT"

ChooseCommandLine ==
    /\ ch_pc = "command_line"
    /\ \E argv_error \in BOOLEAN, argv \in Argvs :
           LET r == check_command_line(argv_error, argv, ch_env.USER)
           IN  ChooseStep("command_line", r, GoesOut(r),
                          "fastboot_sentinel")
    /\ UNCHANGED <<ch_sentinel, ch_battery,
                   ch_env, ch_target_path, ch_oneshot, ch_bcb, ch_oneshot_var,
                   ch_wd, ch_verity_corrupted, ch_ux>>

ChooseFastbootSentinel ==
    /\ ch_pc = "fastboot_sentinel"
    /\ \E sentinel_exists \in BOOLEAN :
           LET r == check_fastboot_sentinel(sentinel_exists)
           IN  /\ ChooseStep("fastboot_sentinel", r, GoesOut(r),
                              "magic_key")
               /\ ch_sentinel' = IF sentinel_exists THEN "present"
                                  ELSE "absent"
    /\ UNCHANGED <<ch_env, ch_target_path, ch_oneshot, ch_bcb, ch_oneshot_var,
                   ch_wd, ch_verity_corrupted, ch_ux, ch_battery>>

ChooseMagicKey ==
    /\ ch_pc = "magic_key"
    /\ \E timeout_var \in MagicKeyTimeouts, key_time \in KeyTimes,
          is_magic \in BOOLEAN, held_ms \in HeldTimes :
           LET r == check_magic_key(timeout_var, key_time, is_magic, held_ms)
           IN  ChooseStep("magic_key", r, GoesOut(r), "watchdog")
    /\ UNCHANGED <<ch_sentinel, ch_battery,
                   ch_env, ch_target_path, ch_oneshot, ch_bcb, ch_oneshot_var,
                   ch_wd, ch_verity_corrupted, ch_ux>>

ChooseWatchdog ==
    /\ ch_pc = "watchdog"
    /\ \E in \in WatchdogInputs, wd \in WatchdogStatusValues :
           LET r == check_watchdog(ch_env.USER, in, wd)
           IN  /\ ChooseStep("watchdog", r.ret, GoesOut(r.ret),
                             "battery_inserted")
               /\ ch_wd' = [run |-> TRUE, status |-> r.wd,
                            reason_deleted |-> r.reason_deleted]
               /\ ch_ux' = IF r.prompted
                           THEN Append(ch_ux, "CRASH_EVENT_CODE")
                           ELSE ch_ux
    /\ UNCHANGED <<ch_sentinel, ch_battery,
                   ch_env, ch_target_path, ch_oneshot, ch_bcb, ch_oneshot_var,
                   ch_verity_corrupted>>

ChooseBatteryInserted ==
    /\ ch_pc = "battery_inserted"
    /\ LET r == check_battery_inserted(ch_env)
       IN  ChooseStep("battery_inserted", r, GoesOut(r), "bcb")
    /\ UNCHANGED <<ch_sentinel, ch_battery,
                   ch_env, ch_target_path, ch_oneshot, ch_bcb, ch_oneshot_var,
                   ch_wd, ch_verity_corrupted, ch_ux>>

\* check_bcb up to the write-back: read misc, clear status (and a bootonce
\* command), write the struct back if it changed.  What misc holds when the
\* read fails plays no part, so one content stands for all.
ChooseBcb ==
    /\ ch_pc = "bcb"
    /\ \E read_error \in BOOLEAN, write_error \in BOOLEAN, bcb \in BcbValues :
           LET r == check_bcb(read_error, write_error, TRUE, bcb)
           IN  /\ read_error => bcb = EmptyBcb
               /\ ch_bcb' = [state |-> IF read_error THEN "read_error"
                                       ELSE "read",
                             found |-> bcb, left |-> r.bcb, write |-> r.write]
               /\ ch_oneshot' = r.oneshot
               /\ ch_target_path' = "NULL"
    /\ ch_pc' = "bcb_target"
    /\ UNCHANGED <<ch_sentinel, ch_battery,
                   ch_env, ch_ret, ch_log, ch_oneshot_var, ch_wd,
                   ch_verity_corrupted, ch_ux>>

\* check_bcb from the write-back on: resolve the target and return.
ChooseBcbTarget ==
    /\ ch_pc = "bcb_target"
    /\ \E target_exists \in BOOLEAN :
           LET r == check_bcb(ch_bcb.state = "read_error", FALSE,
                              target_exists, ch_bcb.found)
           IN  /\ ChooseStep("bcb", r.ret, GoesOut(r.ret),
                             "loader_entry_one_shot")
               /\ ch_target_path' = r.target_path
    /\ UNCHANGED <<ch_sentinel, ch_battery,
                   ch_env, ch_oneshot, ch_bcb, ch_oneshot_var,
                   ch_wd, ch_verity_corrupted, ch_ux>>

ChooseLoaderEntryOneShot ==
    /\ ch_pc = "loader_entry_one_shot"
    /\ \E value \in OneShotValues, delete_error \in BOOLEAN,
          verity_error \in BOOLEAN :
           LET r == check_loader_entry_one_shot(value, delete_error,
                                                verity_error, ch_env)
           IN  /\ ChooseStep("loader_entry_one_shot", r.ret,
                             OneShotGoesOut(r.ret), "battery")
               /\ ch_oneshot_var' = r.var
               /\ ch_verity_corrupted' = r.verity
    /\ UNCHANGED <<ch_sentinel, ch_battery,
                   ch_env, ch_target_path, ch_oneshot, ch_bcb, ch_wd, ch_ux>>

ChooseBattery ==
    /\ ch_pc = "battery"
    /\ \E below_threshold \in BOOLEAN, charger_plugged \in BOOLEAN :
           LET r == check_battery(below_threshold, charger_plugged, ch_env)
           IN  /\ charger_plugged => below_threshold
               /\ ChooseStep("battery", r, GoesOut(r), "charge_mode")
               /\ ch_ux' = IF r = "POWER_OFF"
                           THEN Append(ch_ux, "low_battery")
                           ELSE ch_ux
               /\ ch_battery' = [read |-> TRUE,
                                 below_threshold |-> below_threshold,
                                 charger_plugged |-> charger_plugged]
    /\ UNCHANGED <<ch_sentinel, ch_env, ch_target_path, ch_oneshot, ch_bcb, ch_oneshot_var,
                   ch_wd, ch_verity_corrupted>>

ChooseChargeMode ==
    /\ ch_pc = "charge_mode"
    /\ ChooseStep("charge_mode", check_charge_mode(ch_env), TRUE, "out")
    /\ UNCHANGED <<ch_sentinel, ch_battery,
                   ch_env, ch_target_path, ch_oneshot, ch_bcb, ch_oneshot_var,
                   ch_wd, ch_verity_corrupted, ch_ux>>

-----------------------------------------------------------------------------
(*                 WATCHDOG LOOP DETECTOR OVER SEVERAL BOOTS                *)

\* Boots followed from a cleared watchdog status.
MaxBoots == 4

WdgNoBoot ==
    [kind |-> "none", due |-> FALSE, tested |-> FALSE, written |-> FALSE,
     now |-> 0, found |-> WatchdogStatusReset, prompted |-> FALSE,
     run |-> 0, strict_run |-> 0, row |-> 0]

InitWdg ==
    /\ wdg_env \in [USER : BOOLEAN, counter_max : WatchdogCounterMaxValues]
    /\ wdg_status = WatchdogStatusReset
    /\ wdg_boots = 0
    /\ wdg_last = WdgNoBoot
    /\ wdg_run = [stated |-> 0, strict |-> 0]
    /\ wdg_row = 0

\* The boot falls in the window opened by a reset at time start.
WdgInWindow(now, start) ==
    now >= start /\ now - start <= WATCHDOG_DELAY

\* The run of boots after this one: n + 1 if the boot is one of the run (a
\* run begins on a cleared counter), cleared if not or if the menu came up.
WdgRunAfter(n, in_run, found, prompted) ==
    IF ~(in_run /\ (n > 0 \/ found.counter = 0)) THEN [at |-> 0, next |-> 0]
    ELSE [at |-> n + 1, next |-> IF prompted THEN 0 ELSE n + 1]

\* One boot.  reached: choose_boot_target got as far as check_watchdog (no
\* earlier check selected a target).
WdgBoot(reached, in, r) ==
    LET due == reset_is_due_to_watchdog_or_panic(in.watchdog_reset_source,
                                                 in.reboot_reason)
        shutdown == wdg_env.USER /\ in.reboot_reason = "shutdown"
        writes_ok == in.failure \in {"none", "get_watchdog_status", "GetTime"}
        tested == /\ reached /\ due /\ in.crash_event_menu /\ ~shutdown
                  /\ in.failure \notin {"get_watchdog_status", "GetTime"}
        stated == /\ reached /\ due /\ in.crash_event_menu /\ writes_ok
                  /\ \/ wdg_run.stated = 0
                     \/ WdgInWindow(in.now, wdg_status.time_ref)
        strict == /\ tested /\ in.failure = "none"
                  /\ \/ wdg_run.strict = 0
                     \/ WdgInWindow(in.now, wdg_status.time_ref)
        a == WdgRunAfter(wdg_run.stated, stated, wdg_status, r.prompted)
        b == WdgRunAfter(wdg_run.strict, strict, wdg_status, r.prompted)
        row == IF due THEN wdg_row + 1 ELSE 0
    IN  /\ wdg_boots < MaxBoots
        /\ wdg_boots' = wdg_boots + 1
        /\ wdg_status' = r.wd
        /\ wdg_run' = [stated |-> a.next, strict |-> b.next]
        /\ wdg_row' = (IF r.prompted THEN 0 ELSE row)
        /\ wdg_last' =
               [kind |-> IF reached THEN "checked" ELSE "skipped",
                due |-> due, tested |-> tested,
                written |-> in.failure = "none", now |-> in.now,
                found |-> wdg_status, prompted |-> r.prompted,
                run |-> a.at, strict_run |-> b.at, row |-> row]
        /\ UNCHANGED wdg_env

\* What a boot meets: the reset source and reason, the clock, the call that
\* fails and, when the menu comes up, the user's answer.
WdgInput(menu, failure, source, reason, now, answer) ==
    [crash_event_menu |-> menu, failure |-> failure,
     watchdog_reset_source |-> source, reboot_reason |-> reason,
     now |-> now, counter_max |-> wdg_env.counter_max, answer |-> answer]

\* A boot on which choose_boot_target runs check_watchdog.
WdgBootChecked ==
    \E menu \in BOOLEAN, failure \in WatchdogFailures,
       source \in BOOLEAN, reason \in RebootReasons, now \in WatchdogTimes :
        LET in == WdgInput(menu, failure, source, reason, now, "NORMAL_BOOT")
            r == check_watchdog(wdg_env.USER, in, wdg_status)
        IN  /\ in \in WatchdogInputs
            /\ ~menu => failure = "none"
            /\ WdgBoot(TRUE, in, r)

\* A boot on which the command line, the sentinel or the magic key selected
\* the target: check_watchdog does not run, the variables stay as they are.
WdgBootSkipped ==
    \E source \in BOOLEAN, reason \in RebootReasons, now \in WatchdogTimes :
        LET in == WdgInput(TRUE, "none", source, reason, now, "NORMAL_BOOT")
        IN  /\ in \in WatchdogInputs
            /\ WdgBoot(FALSE, in,
                       [ret |-> "FASTBOOT", wd |-> wdg_status,
                        reason_deleted |-> FALSE, prompted |-> FALSE,
                        status_read |-> FALSE])

-----------------------------------------------------------------------------
(*                          SPECIFICATIONS                                  *)

\* The variables of a part that is not running.
AvbParked == InitAvb /\ avb_boot_state = BOOT_STATE_GREEN
RbParked == InitRb /\ rb_stored = [l \in Locations |-> 0]
MainParked ==
    /\ InitMain
    /\ cfg = [build |-> "user", NO_DEVICE_UNLOCK |-> FALSE,
              USE_TRUSTY |-> FALSE, min_boot_state |-> BOOT_STATE_GREEN,
              recovery_in_boot_partition |-> FALSE, use_slot |-> FALSE]

-----------------------------------------------------------------------------
(*                    SINGLE FUNCTIONS, CALL BY CALL                        *)

\* ---- prepend_slot_command_line
\* A kernel command line is the sequence of its fragments, front first; a
\* fragment is a format string with the argument printed into it.
Fragment(fmt, arg) == [fmt |-> fmt, arg |-> arg]
AVB_ROOTFS_PREFIX == Fragment("skip_initramfs rootwait ro init=/init", "")
SlotSuffixFragment(suffix) == Fragment("androidboot.slot_suffix=%a", suffix)
RootFragment(uuid) == Fragment(" root=PARTUUID=%g", uuid)

\* vb_data->cmdline as the verifier produced it ("NULL": no command line).
VbCmdlinesWithRoot ==
    {"root=/dev/dm-0 dm=vroot", "androidboot.veritymode=enforcing nfsroot=/srv"}
VbCmdlines ==
    {"NULL", "", "androidboot.vbmeta.device_state=locked ro"}
    \cup VbCmdlinesWithRoot
VbDataValues == [present : BOOLEAN, cmdline : VbCmdlines]

\* avb_strstr(vb_data->cmdline, "root="): a substring search.
avb_strstr(haystack, needle) ==
    needle = "root=" /\ haystack \in VbCmdlinesWithRoot

\* The call of prepend_slot_command_line that fails, if any.
PrependFailures ==
    {"none", "prepend_rootfs", "prepend_slot_suffix",
     "gpt_get_partition_uuid", "prepend_root"}
\* slot_get_active(): the suffix of the active slot, NULL without one.
ActiveSuffixes == {"NULL"} \cup SlotSet
SystemUuids == {"1f2e"}
\* The command line handed in, built from the boot image header.
BootCmdlines == {<<>>, <<Fragment("console=ttyS0", "")>>}

\* prepend_command_line: the printed fragment goes in front of the line.
prepend_command_line(cmdline16, frag, fails) ==
    IF fails THEN [ret |-> "EFI_OUT_OF_RESOURCES", cmdline |-> cmdline16]
    ELSE [ret |-> "EFI_SUCCESS", cmdline |-> <<frag>> \o cmdline16]

\* Mutant: the prefix is added for every boot target.
avb_prepend_command_line_rootfs_any(cmdline16, target, use_slot, failure) ==
    IF use_slot
    THEN prepend_command_line(cmdline16, AVB_ROOTFS_PREFIX,
                              failure = "prepend_rootfs")
    ELSE [ret |-> "EFI_SUCCESS", cmdline |-> cmdline16]

avb_prepend_command_line_rootfs(cmdline16, target, use_slot, failure) ==
    IF target \in {"RECOVERY", "MEMORY"}
    THEN [ret |-> "EFI_SUCCESS", cmdline |-> cmdline16]
    ELSE IF use_slot
    THEN prepend_command_line(cmdline16, AVB_ROOTFS_PREFIX,
                              failure = "prepend_rootfs")
    ELSE [ret |-> "EFI_SUCCESS", cmdline |-> cmdline16]

\* Mutant: the slot suffix is put in before the rootfs prefix.
prepend_slot_command_line_suffix_first(cmdline16, target, vb_data, sys) ==
    LET suffixed ==
            IF sys.use_slot /\ sys.active # "NULL"
            THEN prepend_command_line(cmdline16,
                                      SlotSuffixFragment(sys.active),
                                      sys.failure = "prepend_slot_suffix")
            ELSE [ret |-> "EFI_SUCCESS", cmdline |-> cmdline16]
        rootfs == avb_prepend_command_line_rootfs(suffixed.cmdline, target,
                                                  sys.use_slot, sys.failure)
    IN
    IF EFI_ERROR(suffixed.ret) THEN suffixed
    ELSE IF sys.use_slot /\ vb_data.present /\ vb_data.cmdline # "NULL"
            /\ ~avb_strstr(vb_data.cmdline, "root=")
    THEN IF sys.failure = "gpt_get_partition_uuid"
         THEN [ret |-> "EFI_NOT_FOUND", cmdline |-> rootfs.cmdline]
         ELSE prepend_command_line(rootfs.cmdline,
                                   RootFragment(sys.system_uuid),
                                   sys.failure = "prepend_root")
    ELSE [ret |-> "EFI_SUCCESS", cmdline |-> rootfs.cmdline]

\* sys: use_slot(), slot_get_active(), the UUID of the system partition and
\* the failing call.  The status of avb_prepend_command_line_rootfs is
\* dropped; its command line is kept.
prepend_slot_command_line(cmdline16, target, vb_data, sys) ==
    LET rootfs == avb_prepend_command_line_rootfs(cmdline16, target,
                                                  sys.use_slot, sys.failure)
        suffixed ==
            IF sys.active # "NULL"
            THEN prepend_command_line(rootfs.cmdline,
                                      SlotSuffixFragment(sys.active),
                                      sys.failure = "prepend_slot_suffix")
            ELSE [ret |-> "EFI_SUCCESS", cmdline |-> rootfs.cmdline]
    IN
    IF ~sys.use_slot THEN [ret |-> "EFI_SUCCESS", cmdline |-> rootfs.cmdline]
    ELSE IF EFI_ERROR(suffixed.ret) THEN suffixed
    ELSE IF vb_data.present /\ vb_data.cmdline # "NULL"
            /\ ~avb_strstr(vb_data.cmdline, "root=")
    THEN IF sys.failure = "gpt_get_partition_uuid"
         THEN [ret |-> "EFI_NOT_FOUND", cmdline |-> suffixed.cmdline]
         ELSE prepend_command_line(suffixed.cmdline,
                                   RootFragment(sys.system_uuid),
                                   sys.failure = "prepend_root")
    ELSE suffixed

\* ---- one call of one function
FnNoResult == [ret |-> "none"]
FnIdle == [call |-> "none", in |-> [x |-> 0], done |-> FALSE,
           out |-> FnNoResult]
FnCall(name, inputs) ==
    [call : {name}, in : inputs, done : {FALSE}, out : {FnNoResult}]

PrependTargets ==
    {"NORMAL_BOOT", "RECOVERY", "MEMORY", "CHARGER", "ESP_BOOTIMAGE"}
PrependSystems ==
    {s \in [use_slot : BOOLEAN, active : ActiveSuffixes,
            system_uuid : SystemUuids, failure : PrependFailures] :
        ~s.use_slot => s.active = "NULL"}

FnCalls ==
    FnCall("check_loader_entry_one_shot",
           [value : OneShotValues, delete_error : BOOLEAN,
            verity_error : BOOLEAN, env : ChooseEnvs])
    \cup FnCall("check_bcb",
                [read_error : BOOLEAN, write_error : BOOLEAN,
                 target_exists : BOOLEAN, bcb : BcbValues])
    \cup FnCall("check_bcb_twice",
                [read_error : BOOLEAN, write_error : BOOLEAN,
                 read_error2 : BOOLEAN, write_error2 : BOOLEAN,
                 target_exists : BOOLEAN, bcb : BcbValues])
    \cup FnCall("check_watchdog",
                [user : BOOLEAN, wd : WatchdogStatusValues,
                 crash_event_menu : BOOLEAN, failure : WatchdogFailures,
                 watchdog_reset_source : BOOLEAN,
                 reboot_reason : RebootReasons, now : {100, 701},
                 counter_max : {1}, answer : {"NORMAL_BOOT", "FASTBOOT"}])
    \cup FnCall("check_command_line",
                [argv_error : BOOLEAN, argv : Argvs, user : BOOLEAN])
    \cup FnCall("validate_bootimage",
                [target : BootTargets, verify_state : VerifyStates,
                 name : ImageNames, recovery_in_boot : BOOLEAN])
    \cup FnCall("load_image",
                [trusty_dies : BOOLEAN,
                 slot_boot_ret : {"EFI_SUCCESS", "EFI_DEVICE_ERROR"},
                 start_ret : {"handoff", "EFI_LOAD_ERROR",
                              "EFI_INVALID_PARAMETER"},
                 failed_ret : {"EFI_SUCCESS", "EFI_NOT_FOUND"}])
    \cup FnCall("prepend_slot_command_line",
                [cmdline16 : BootCmdlines, target : PrependTargets,
                 vb_data : VbDataValues, sys : PrependSystems])

InitFn == fn \in FnCalls

FnReturn(name, result) ==
    /\ fn.call = name
    /\ ~fn.done
    /\ fn' = [fn EXCEPT !.done = TRUE, !.out = result]
    /\ UNCHANGED mk

FnCheckLoaderEntryOneShot ==
    /\ fn.call = "check_loader_entry_one_shot"
    /\ FnReturn("check_loader_entry_one_shot",
                check_loader_entry_one_shot(fn.in.value, fn.in.delete_error,
                                            fn.in.verity_error, fn.in.env))

FnCheckBcb ==
    /\ fn.call = "check_bcb"
    /\ FnReturn("check_bcb",
                check_bcb(fn.in.read_error, fn.in.write_error,
                          fn.in.target_exists, fn.in.bcb))

\* check_bcb on two boots in a row: the second run finds on misc what the
\* first one left there.
FnCheckBcbTwice ==
    /\ fn.call = "check_bcb_twice"
    /\ LET first == check_bcb(fn.in.read_error, fn.in.write_error,
                              fn.in.target_exists, fn.in.bcb)
       IN  FnReturn("check_bcb_twice",
                    [first |-> first,
                     second |-> check_bcb(fn.in.read_error2,
                                          fn.in.write_error2,
                                          fn.in.target_exists, first.bcb)])

FnCheckWatchdog ==
    /\ fn.call = "check_watchdog"
    /\ FnReturn("check_watchdog",
                check_watchdog(fn.in.user, fn.in, fn.in.wd))

FnCheckCommandLine ==
    /\ fn.call = "check_command_line"
    /\ FnReturn("check_command_line",
                [ret |-> check_command_line(fn.in.argv_error, fn.in.argv,
                                            fn.in.user)])

FnValidateBootimage ==
    /\ fn.call = "validate_bootimage"
    /\ FnReturn("validate_bootimage",
                [ret |-> validate_bootimage(fn.in.target, fn.in.verify_state,
                                            fn.in.name,
                                            fn.in.recovery_in_boot)])

FnLoadImage ==
    /\ fn.call = "load_image"
    /\ LET outcome == load_image_outcome(fn.in.trusty_dies,
                                         fn.in.slot_boot_ret, fn.in.start_ret)
       IN  FnReturn("load_image",
                    [outcome |-> outcome, calls |-> load_image_calls(outcome),
                     ret |-> load_image_ret(outcome, fn.in.slot_boot_ret,
                                            fn.in.start_ret,
                                            fn.in.failed_ret)])

FnPrependSlotCommandLine ==
    /\ fn.call = "prepend_slot_command_line"
    /\ FnReturn("prepend_slot_command_line",
                prepend_slot_command_line(fn.in.cmdline16, fn.in.target,
                                          fn.in.vb_data, fn.in.sys))

ChooseParked ==
    /\ InitChoose
    /\ ch_env = [USER |-> TRUE, off_mode_charge |-> FALSE,
                 wake_source |-> "WAKE_NOT_APPLICABLE"]

WdgParked ==
    InitWdg /\ wdg_env = [USER |-> TRUE, counter_max |-> 1]

FnParked ==
    /\ fn = FnIdle
    /\ InitMk
    /\ mk.timeout_var = 0 /\ mk.key_time = -1 /\ ~mk.is_magic /\ mk.held_ms = 0

InitSpecAvb ==
    InitAvb /\ RbParked /\ MainParked /\ ChooseParked /\ WdgParked
    /\ FnParked

NextAvb ==
    \/ GetAvbResultCall /\ UNCHANGED <<varsRb, varsMain, varsChoose, varsWdg, varsFn>>
    \/ GetAvbFlowResultCall /\ UNCHANGED <<varsRb, varsMain, varsChoose, varsWdg, varsFn>>
    \/ LoadPartitionAvb /\ UNCHANGED <<varsRb, varsMain, varsChoose, varsWdg, varsFn>>
    \/ LoadPartitionAvbAb /\ UNCHANGED <<varsRb, varsMain, varsChoose, varsWdg, varsFn>>
    \/ AvbReturn /\ UNCHANGED <<varsRb, varsMain, varsChoose, varsWdg, varsFn>>

SpecAvb == InitSpecAvb /\ [][NextAvb]_vars

InitSpecRollback ==
    InitRb /\ AvbParked /\ MainParked /\ ChooseParked /\ WdgParked
    /\ FnParked

NextRb ==
    \/ RbCall /\ UNCHANGED <<varsAvb, varsMain, varsChoose, varsWdg, varsFn>>
    \/ RbSkip /\ UNCHANGED <<varsAvb, varsMain, varsChoose, varsWdg, varsFn>>
    \/ RbReadFail /\ UNCHANGED <<varsAvb, varsMain, varsChoose, varsWdg, varsFn>>
    \/ RbKeep /\ UNCHANGED <<varsAvb, varsMain, varsChoose, varsWdg, varsFn>>
    \/ RbWrite /\ UNCHANGED <<varsAvb, varsMain, varsChoose, varsWdg, varsFn>>
    \/ RbWriteFail /\ UNCHANGED <<varsAvb, varsMain, varsChoose, varsWdg, varsFn>>
    \/ RbDone /\ UNCHANGED <<varsAvb, varsMain, varsChoose, varsWdg, varsFn>>
    \/ RbReturn /\ UNCHANGED <<varsAvb, varsMain, varsChoose, varsWdg, varsFn>>

SpecRollback == InitSpecRollback /\ [][NextRb]_vars

\* The trust pipeline is checked on two slot layouts: every slot fresh (so a
\* NORMAL_BOOT load can fail slot after slot) and every slot unbootable.
SlotProfiles ==
    {[x \in SlotSet |-> SlotFresh], [x \in SlotSet |-> SlotDead]}

InitSpec ==
    /\ InitMain
    /\ slots \in SlotProfiles
    /\ recovery_tries = IF slots = [x \in SlotSet |-> SlotFresh] THEN 1 ELSE 0
    /\ AvbParked
    /\ RbParked
    /\ ChooseParked
    /\ WdgParked
    /\ FnParked

Next ==
    \/ EfiEntry /\ UNCHANGED <<varsAvb, varsRb, varsChoose, varsWdg, varsFn>>
    \/ EfiChoose /\ UNCHANGED <<varsAvb, varsRb, varsChoose, varsWdg, varsFn>>
    \/ EfiDeviceState /\ UNCHANGED <<varsAvb, varsRb, varsChoose, varsWdg, varsFn>>
    \/ EfiPreLoad /\ UNCHANGED <<varsAvb, varsRb, varsChoose, varsWdg, varsFn>>
    \/ EfiLoadBegin /\ UNCHANGED <<varsAvb, varsRb, varsChoose, varsWdg, varsFn>>
    \/ EfiLoadSlot /\ UNCHANGED <<varsAvb, varsRb, varsChoose, varsWdg, varsFn>>
    \/ EfiValidate /\ UNCHANGED <<varsAvb, varsRb, varsChoose, varsWdg, varsFn>>
    \/ EfiCheckState /\ UNCHANGED <<varsAvb, varsRb, varsChoose, varsWdg, varsFn>>
    \/ EfiStart /\ UNCHANGED <<varsAvb, varsRb, varsChoose, varsWdg, varsFn>>
    \/ EfiAfter /\ UNCHANGED <<varsAvb, varsRb, varsChoose, varsWdg, varsFn>>
    \/ RecoverMode /\ UNCHANGED <<varsAvb, varsRb, varsChoose, varsWdg, varsFn>>
    \/ FastbootEnter /\ UNCHANGED <<varsAvb, varsRb, varsChoose, varsWdg, varsFn>>
    \/ FastbootError /\ UNCHANGED <<varsAvb, varsRb, varsChoose, varsWdg, varsFn>>
    \/ FastbootBootImage /\ UNCHANGED <<varsAvb, varsRb, varsChoose, varsWdg, varsFn>>
    \/ FastbootContinue /\ UNCHANGED <<varsAvb, varsRb, varsChoose, varsWdg, varsFn>>
    \/ FastbootReboot /\ UNCHANGED <<varsAvb, varsRb, varsChoose, varsWdg, varsFn>>

Spec == InitSpec /\ [][Next]_vars

InitSpecChoose ==
    InitChoose /\ AvbParked /\ RbParked /\ MainParked /\ WdgParked
    /\ FnParked

NextChoose ==
    \/ ChooseCommandLine /\ UNCHANGED <<varsAvb, varsRb, varsMain, varsWdg, varsFn>>
    \/ ChooseFastbootSentinel /\ UNCHANGED <<varsAvb, varsRb, varsMain, varsWdg, varsFn>>
    \/ ChooseMagicKey /\ UNCHANGED <<varsAvb, varsRb, varsMain, varsWdg, varsFn>>
    \/ ChooseWatchdog /\ UNCHANGED <<varsAvb, varsRb, varsMain, varsWdg, varsFn>>
    \/ ChooseBatteryInserted /\ UNCHANGED <<varsAvb, varsRb, varsMain, varsWdg, varsFn>>
    \/ ChooseBcb /\ UNCHANGED <<varsAvb, varsRb, varsMain, varsWdg, varsFn>>
    \/ ChooseBcbTarget /\ UNCHANGED <<varsAvb, varsRb, varsMain, varsWdg, varsFn>>
    \/ ChooseLoaderEntryOneShot /\ UNCHANGED <<varsAvb, varsRb, varsMain, varsWdg, varsFn>>
    \/ ChooseBattery /\ UNCHANGED <<varsAvb, varsRb, varsMain, varsWdg, varsFn>>
    \/ ChooseChargeMode /\ UNCHANGED <<varsAvb, varsRb, varsMain, varsWdg, varsFn>>

SpecChoose == InitSpecChoose /\ [][NextChoose]_vars

\* load_boot_image alone, from every slot layout: efi_main has come to the
\* call with the active slot slot_init selected.
InitSpecLoad ==
    /\ pc = "load"
    /\ cfg \in Configs
    /\ boot_target \in {"NORMAL_BOOT", "CHARGER", "RECOVERY", "ESP_BOOTIMAGE",
                        "MEMORY"}
    /\ boot_state \in {BOOT_STATE_GREEN, BOOT_STATE_ORANGE}
    /\ lock_prompted = FALSE
    /\ bootimage = "NULL"
    /\ load_ret = "EFI_SUCCESS"
    /\ image = NoImage
    /\ slots \in [SlotSet -> SlotMetaValues]
    /\ cfg.use_slot = FALSE => slots = [x \in SlotSet |-> SlotDead]
    /\ slot_active = IF cfg.use_slot THEN SelectActive(slots) ELSE "NULL"
    /\ recovery_tries \in 0..1
    /\ cfg.use_slot = FALSE => recovery_tries = 0
    /\ BootStateVar = -1
    /\ ux_calls = <<>>
    /\ load_failed = FALSE
    /\ load_log = LoadLogNone
    /\ slot_boot_calls = {}
    /\ started = {}
    /\ fb_image = FbNoImage
    /\ reboot_count = 0
    /\ ended = ""
    /\ AvbParked
    /\ RbParked
    /\ ChooseParked
    /\ WdgParked
    /\ FnParked

\* Bound: reboots to the same target that are counted (more are taken).
MaxReboots == 2

\* The device comes up again after reboot_to_target(boot_target): slot_init
\* selects the active slot from the metadata the last boot left, the
\* selector returns the target asked for, the lock state is read anew, and
\* efi_main is back at load_boot_image.  BootState is a firmware variable
\* and keeps its value.
EfiBootAgain ==
    /\ pc = "end"
    /\ ended = "reboot"
    /\ reboot_count' = IF reboot_count < MaxReboots THEN reboot_count + 1
                       ELSE reboot_count
    /\ pc' = "load"
    /\ ended' = ""
    /\ boot_state' \in {BOOT_STATE_GREEN, BOOT_STATE_ORANGE}
    /\ slot_active' = IF cfg.use_slot THEN SelectActive(slots) ELSE "NULL"
    /\ lock_prompted' = FALSE
    /\ bootimage' = "NULL"
    /\ load_ret' = "EFI_SUCCESS"
    /\ image' = NoImage
    /\ ux_calls' = <<>>
    /\ load_failed' = FALSE
    /\ load_log' = LoadLogNone
    /\ slot_boot_calls' = {}
    /\ started' = {}
    /\ UNCHANGED <<cfg, boot_target, slots, recovery_tries, BootStateVar,
                   fb_image>>

\* Boots in a row for one target: a platform without the trusted OS whose
\* policy never powers off on a boot state.
BootsConfigs ==
    {c \in Configs : /\ ~c.NO_DEVICE_UNLOCK
                     /\ ~c.USE_TRUSTY
                     /\ c.min_boot_state = BOOT_STATE_RED}

InitSpecBoots ==
    /\ AvbParked
    /\ RbParked
    /\ ChooseParked
    /\ WdgParked
    /\ FnParked
    /\ pc = "load"
    /\ cfg \in BootsConfigs
    /\ boot_target \in {"NORMAL_BOOT", "CHARGER", "RECOVERY"}
    /\ boot_state \in {BOOT_STATE_GREEN, BOOT_STATE_ORANGE}
    /\ lock_prompted = FALSE
    /\ bootimage = "NULL"
    /\ load_ret = "EFI_SUCCESS"
    /\ image = NoImage
    /\ slots \in [SlotSet -> SlotMetaValues]
    /\ cfg.use_slot = FALSE => slots = [x \in SlotSet |-> SlotDead]
    /\ slot_active = IF cfg.use_slot THEN SelectActive(slots) ELSE "NULL"
    /\ recovery_tries \in 0..1
    /\ cfg.use_slot = FALSE => recovery_tries = 0
    /\ BootStateVar = -1
    /\ ux_calls = <<>>
    /\ load_failed = FALSE
    /\ load_log = LoadLogNone
    /\ slot_boot_calls = {}
    /\ started = {}
    /\ fb_image = FbNoImage
    /\ reboot_count = 0
    /\ ended = ""

NextBoots ==
    \/ EfiLoadBegin /\ UNCHANGED <<varsAvb, varsRb, varsChoose, varsWdg, varsFn>>
    \/ EfiLoadSlot /\ UNCHANGED <<varsAvb, varsRb, varsChoose, varsWdg, varsFn>>
    \/ EfiValidate /\ UNCHANGED <<varsAvb, varsRb, varsChoose, varsWdg, varsFn>>
    \/ EfiCheckState /\ UNCHANGED <<varsAvb, varsRb, varsChoose, varsWdg, varsFn>>
    \/ EfiStart /\ UNCHANGED <<varsAvb, varsRb, varsChoose, varsWdg, varsFn>>
    \/ EfiAfter /\ UNCHANGED <<varsAvb, varsRb, varsChoose, varsWdg, varsFn>>
    \/ EfiBootAgain /\ UNCHANGED <<varsAvb, varsRb, varsChoose, varsWdg, varsFn>>

\* The firmware runs efi_main to its end and a reset is followed by the
\* next boot: a step that can be taken is taken.
SpecBoots == InitSpecBoots /\ [][NextBoots]_vars /\ WF_vars(NextBoots)

NextLoad ==
    \/ EfiLoadBegin /\ UNCHANGED <<varsAvb, varsRb, varsChoose, varsWdg, varsFn>>
    \/ EfiLoadSlot /\ UNCHANGED <<varsAvb, varsRb, varsChoose, varsWdg, varsFn>>

SpecLoad == InitSpecLoad /\ [][NextLoad]_vars

InitSpecMagicKey ==
    /\ InitMk
    /\ fn = FnIdle
    /\ AvbParked /\ RbParked /\ MainParked /\ ChooseParked /\ WdgParked

NextMagicKey ==
    \/ MkReadTimeout
           /\ UNCHANGED <<varsAvb, varsRb, varsMain, varsChoose, varsWdg>>
    \/ MkPoll /\ UNCHANGED <<varsAvb, varsRb, varsMain, varsChoose, varsWdg>>
    \/ MkDecide /\ UNCHANGED <<varsAvb, varsRb, varsMain, varsChoose, varsWdg>>

SpecMagicKey == InitSpecMagicKey /\ [][NextMagicKey]_vars

\* One call of one selector or loader function, from every input.
MkParked ==
    mk = [pc |-> "entry", timeout_var |-> 0, key_time |-> -1,
          is_magic |-> FALSE, held_ms |-> 0, wait_ms |-> EFI_RESET_WAIT_MS,
          i |-> 0, reads |-> 0, stalls |-> 0, key_read |-> FALSE,
          ret |-> "NORMAL_BOOT"]

InitSpecFunctions ==
    /\ AvbParked /\ RbParked /\ MainParked /\ ChooseParked /\ WdgParked
    /\ MkParked
    /\ InitFn

NextFunctions ==
    \/ FnCheckLoaderEntryOneShot
           /\ UNCHANGED <<varsAvb, varsRb, varsMain, varsChoose, varsWdg>>
    \/ FnCheckBcb
           /\ UNCHANGED <<varsAvb, varsRb, varsMain, varsChoose, varsWdg>>
    \/ FnCheckBcbTwice
           /\ UNCHANGED <<varsAvb, varsRb, varsMain, varsChoose, varsWdg>>
    \/ FnCheckWatchdog
           /\ UNCHANGED <<varsAvb, varsRb, varsMain, varsChoose, varsWdg>>
    \/ FnCheckCommandLine
           /\ UNCHANGED <<varsAvb, varsRb, varsMain, varsChoose, varsWdg>>
    \/ FnValidateBootimage
           /\ UNCHANGED <<varsAvb, varsRb, varsMain, varsChoose, varsWdg>>
    \/ FnPrependSlotCommandLine
           /\ UNCHANGED <<varsAvb, varsRb, varsMain, varsChoose, varsWdg>>
    \/ FnLoadImage
           /\ UNCHANGED <<varsAvb, varsRb, varsMain, varsChoose, varsWdg>>

SpecFunctions == InitSpecFunctions /\ [][NextFunctions]_vars

InitSpecWatchdog ==
    InitWdg /\ AvbParked /\ RbParked /\ MainParked /\ ChooseParked
    /\ FnParked

NextWatchdog ==
    \/ WdgBootChecked
           /\ UNCHANGED <<varsAvb, varsRb, varsMain, varsChoose, varsFn>>
    \/ WdgBootSkipped
           /\ UNCHANGED <<varsAvb, varsRb, varsMain, varsChoose, varsFn>>

SpecWatchdog == InitSpecWatchdog /\ [][NextWatchdog]_vars

-----------------------------------------------------------------------------
(*                              CLAIMS                                      *)

\* ---- C2
AvbLoadEntries ==
    {"android_image_load_partition_avb", "android_image_load_partition_avb_ab",
     "android_image_load_partition_avb_ab_flow"}
AvbDirectEntries == {"get_avb_result", "get_avb_flow_result"}

\* The last call saw a slot_data whose first loaded partition has a wrong magic.
AvbWrongMagic ==
    /\ avb_pc = "done"
    /\ ~avb_call.slot_data.null
    /\ avb_call.slot_data.num_loaded_partitions >= 1
    /\ ~avb_call.slot_data.magic_ok

\* C2: a first partition without BOOT_MAGIC makes get_avb_result and
\* get_avb_flow_result return EFI_NOT_FOUND with *boot_state untouched, and
\* makes the two load functions return that error with *boot_state RED and
\* *bootimage_p NULL (and no slot made active), for every outcome and flag.
C2_MagicCheckFirst ==
    AvbWrongMagic =>
        /\ avb_ret = "EFI_NOT_FOUND"
        /\ avb_call.fn \in AvbDirectEntries =>
               avb_boot_state = avb_call.boot_state
        /\ avb_call.fn \in AvbLoadEntries =>
               /\ avb_boot_state = BOOT_STATE_RED
               /\ avb_bootimage = "NULL"
               /\ avb_active_cached = ""

C2_Witness ==
    /\ AvbWrongMagic
    /\ avb_call.fn = "android_image_load_partition_avb"
    /\ avb_call.outcome = "OK"
    /\ avb_call.boot_state = BOOT_STATE_ORANGE
    /\ avb_boot_state = BOOT_STATE_RED

\* ---- C5
\* The mapping as the claim states it.
C5_Mapped(outcome, allow, s) ==
    IF outcome = "OK"
    THEN IF allow THEN Max2(s, BOOT_STATE_ORANGE) ELSE s
    ELSE IF ~allow THEN BOOT_STATE_RED
    ELSE IF s <= BOOT_STATE_ORANGE THEN BOOT_STATE_ORANGE
    ELSE BOOT_STATE_RED

AvbValidImage(sd) ==
    ~sd.null /\ sd.num_loaded_partitions >= 1 /\ sd.magic_ok

\* C5: on a valid-magic slot_data get_avb_result and get_avb_flow_result
\* succeed and map (outcome, allow_verification_error, incoming state) to the
\* state of the claim's table; the result is never below the incoming state.
C5_ResultMapping ==
    (/\ avb_pc = "done"
     /\ avb_call.fn \in AvbDirectEntries
     /\ AvbValidImage(avb_call.slot_data)) =>
        /\ avb_ret = "EFI_SUCCESS"
        /\ avb_boot_state = C5_Mapped(avb_call.outcome, avb_call.allow,
                                      avb_call.boot_state)
        /\ avb_boot_state >= avb_call.boot_state

C5_Witness ==
    /\ avb_pc = "done"
    /\ avb_call.fn = "get_avb_flow_result"
    /\ AvbValidImage(avb_call.slot_data)
    /\ avb_call.outcome = "ERROR_IO"
    /\ avb_call.allow
    /\ avb_call.boot_state = BOOT_STATE_YELLOW
    /\ avb_boot_state = BOOT_STATE_ORANGE

\* ---- C6
\* C6: the load functions behave as the mapping with allow = (incoming state
\* is not GREEN): from GREEN the result is GREEN exactly for outcome OK on a
\* valid-magic image and RED otherwise, from RED it is RED, and every failure
\* return leaves RED and no image.
C6_AllowFromIncomingState ==
    (avb_pc = "done" /\ avb_call.fn \in AvbLoadEntries) =>
        LET in == avb_call.boot_state
            good == AvbValidImage(avb_call.slot_data)
        IN  /\ ~EFI_ERROR(avb_ret) =>
                   avb_boot_state = C5_Mapped(avb_call.outcome,
                                              in # BOOT_STATE_GREEN, in)
            /\ in = BOOT_STATE_GREEN =>
                   avb_boot_state = IF good /\ avb_call.outcome = "OK"
                                        /\ ~EFI_ERROR(avb_ret)
                                    THEN BOOT_STATE_GREEN
                                    ELSE BOOT_STATE_RED
            /\ in = BOOT_STATE_RED => avb_boot_state = BOOT_STATE_RED
            /\ EFI_ERROR(avb_ret) =>
                   avb_boot_state = BOOT_STATE_RED /\ avb_bootimage = "NULL"
            /\ EFI_ERROR(avb_ret) <=> ~good

C6_Witness ==
    /\ avb_pc = "done"
    /\ avb_call.fn = "android_image_load_partition_avb_ab_flow"
    /\ avb_call.boot_state = BOOT_STATE_GREEN
    /\ avb_call.outcome = "OK"
    /\ AvbValidImage(avb_call.slot_data)
    /\ avb_boot_state = BOOT_STATE_GREEN
    /\ avb_bootimage = "data"

\* ---- C8
\* C8: during and after a call no stored index is below its value before the
\* call; a call that returns true leaves max(before, asserted) everywhere;
\* each write stores an asserted index above the value it replaces.
C8_RollbackMonotone ==
    /\ \A n \in Locations : rb_stored[n] >= rb_before[n]
    /\ rb_pc = "ret_true" =>
           \A n \in Locations :
               rb_stored[n] = Max2(rb_before[n], rb_asserted[n])
    /\ \A i \in 1..Len(rb_writes) :
           /\ rb_writes[i].new > rb_writes[i].old
           /\ rb_writes[i].new = rb_asserted[rb_writes[i].loc]

\* A returned call that advanced one location and left a higher stored index
\* against a lower, non-zero asserted one.
C8_Witness ==
    /\ rb_pc = "ret_true"
    /\ \E n \in Locations :
           rb_asserted[n] > rb_before[n] /\ rb_stored[n] = rb_asserted[n]
    /\ \E n \in Locations :
           /\ rb_asserted[n] > 0
           /\ rb_asserted[n] < rb_before[n]
           /\ rb_stored[n] = rb_before[n]

\* ---- C9
\* C9 as stated: a call that returns false has advanced nothing.
C9_NoPartialAdvance ==
    rb_pc = "ret_false" => rb_stored = rb_before

\* C9 amended: a call that returns false because the read or write of
\* location k failed leaves k and every later location as before the call,
\* and has brought every location below k to max(before, asserted).
C9_PartialAdvanceBelowFailure ==
    rb_pc = "ret_false" =>
        /\ rb_failed_at \in Locations
        /\ rb_asserted[rb_failed_at] > 0
        /\ \A n \in Locations :
               IF n < rb_failed_at
               THEN rb_stored[n] = Max2(rb_before[n], rb_asserted[n])
               ELSE rb_stored[n] = rb_before[n]

C9_Witness ==
    /\ rb_pc = "ret_false"
    /\ rb_stored # rb_before
    /\ rb_failed_at > 0

\* ---- C1
\* RED is above min_boot_state() and the NO_DEVICE_UNLOCK override of a
\* non-USER build is absent.
ProductionPolicy(c) ==
    /\ BOOT_STATE_RED > c.min_boot_state
    /\ (c.build = "user" \/ ~c.NO_DEVICE_UNLOCK)

RedCodes == {"RED_STATE_CODE", "BAD_RECOVERY_CODE"}
UxCodes == {ux_calls[i] : i \in 1..Len(ux_calls)}

\* C1 as stated: once load_boot_image has failed in efi_main, slot_boot and
\* android_image_start_buffer are not invoked in that boot, in any build and
\* for any answer of the UX.
C1_NoStartAfterLoadFailure ==
    load_failed => (slot_boot_calls = {} /\ started = {})

\* C1 amended: after a failed load the state is RED and boot_error is invoked;
\* under the production policy boot_error does not return, efi_main never
\* reaches load_image, and the only start left is the fastboot loop's, of a
\* host-supplied image as MEMORY with ORANGE.
C1_LoadFailureEndsInErrorUx ==
    load_failed =>
        /\ boot_state = BOOT_STATE_RED
        /\ pc # "check_state" => (UxCodes \cap RedCodes # {})
        /\ ProductionPolicy(cfg) =>
               /\ pc \notin {"start", "after"}
               /\ "efi_main" \notin slot_boot_calls
               /\ \A r \in started :
                      /\ r.by = "fastboot"
                      /\ r.target = "MEMORY"
                      /\ r.boot_state = BOOT_STATE_ORANGE

\* NORMAL_BOOT with slots, every slot failed during the load, production
\* policy: the boot was halted from the error UX.
C1_Witness ==
    /\ load_failed
    /\ ProductionPolicy(cfg)
    /\ boot_target = "NORMAL_BOOT"
    /\ cfg.use_slot
    /\ recovery_tries = 1
    /\ \A x \in SlotSet : slots[x].priority = 0
    /\ UxCodes \cap RedCodes # {}
    /\ ended = "halt"

\* ---- C3
\* C3: under the production policy efi_main is never past the RED prompt with
\* state RED, the RED prompt is followed only by recover mode, fastboot or the
\* end of the boot, and no image is started with state RED.
C3_RedNeverHandedOff ==
    ProductionPolicy(cfg) =>
        /\ pc \in {"start", "after"} => boot_state # BOOT_STATE_RED
        /\ UxCodes \cap RedCodes # {} =>
               /\ pc \in {"recover_mode", "fastboot", "fastboot_loop", "end"}
               /\ ended \in {"", "halt", "reboot", "handoff"}
               /\ ended = "handoff" => started # {}
        /\ \A r \in started : r.boot_state # BOOT_STATE_RED

\* A loaded image that validated RED under the production policy: halted.
C3_Witness ==
    /\ ProductionPolicy(cfg)
    /\ ~load_failed
    /\ boot_state = BOOT_STATE_RED
    /\ "RED_STATE_CODE" \in UxCodes
    /\ image.verify_state = BOOT_STATE_GREEN
    /\ ended = "halt"

\* ---- C4
\* C4 as stated: no assignment to boot_state in efi_main lowers it.
C4_BootStateNeverDecreases ==
    [][boot_state' >= boot_state]_vars

\* ---- C7
\* Expected labels of the specification's reducer, step 5.
C7_ExpectedLabels(target, recovery_in_boot) ==
    CASE target = "NORMAL_BOOT" -> {"/boot", "/recovery"}
      [] target \in {"MEMORY", "CHARGER", "ESP_BOOTIMAGE"} -> {"/boot"}
      [] target = "RECOVERY" ->
             IF recovery_in_boot THEN {"/boot"} ELSE {"/recovery"}
      [] OTHER -> {}

\* efi_main has validated an image whose declared name is not an expected one.
C7_Mismatch ==
    /\ pc \in {"check_state", "start", "after"}
    /\ image.name # "none"
    /\ image.name \notin
           C7_ExpectedLabels(boot_target, cfg.recovery_in_boot_partition)

\* C7 as stated: with a name mismatch efi_main proceeds with RED.
C7_MismatchIsRed ==
    C7_Mismatch =>
        /\ boot_state = BOOT_STATE_RED
        /\ \A r \in started : r.by = "efi_main" => r.boot_state = BOOT_STATE_RED

\* C7 amended: with a name mismatch efi_main proceeds with RED unless the
\* state was already ORANGE before loading (secure boot off, or unlocked: the
\* user was warned), in which case it proceeds with ORANGE; BootState gets
\* that same value.
C7_MismatchIsRedUnlessOrange ==
    C7_Mismatch =>
        /\ boot_state \in {BOOT_STATE_ORANGE, BOOT_STATE_RED}
        /\ boot_state = BOOT_STATE_ORANGE =>
               /\ USERDEBUG(cfg)
               /\ UxCodes \cap {"SECURE_BOOT_CODE", "DEVICE_UNLOCKED_CODE"} # {}
        /\ \A r \in started : r.by = "efi_main" => r.boot_state = boot_state
        /\ pc = "after" => BootStateVar = boot_state

\* A GREEN-verified image with the wrong name on a locked device.
C7_Witness ==
    /\ C7_Mismatch
    /\ pc = "check_state"
    /\ image.verify_state = BOOT_STATE_GREEN
    /\ UxCodes = {}
    /\ USERDEBUG(cfg)
    /\ boot_state = BOOT_STATE_RED

\* ---- C10
\* The order of the checks as the claim gives it.
C10_Order ==
    <<"command_line", "fastboot_sentinel", "magic_key", "watchdog",
      "battery_inserted", "bcb", "loader_entry_one_shot", "battery",
      "charge_mode">>

\* The checks run so far are the first checks of the order, in that order.
C10_InOrder ==
    /\ Len(ch_log) <= Len(C10_Order)
    /\ \A i \in 1..Len(ch_log) : ch_log[i].check = C10_Order[i]

C10_PassesOn(entry) ==
    \/ entry.ret = "NORMAL_BOOT"
    \/ entry.check = "loader_entry_one_shot" /\ entry.ret = "DNX"

C11_SentinelFound ==
    /\ ch_sentinel = "present"
    /\ ch_log[1] = [check |-> "command_line", ret |-> "NORMAL_BOOT"]

BcbReturned == \E i \in 1..Len(ch_log) : ch_log[i].check = "bcb"
BcbResult == ch_log[CHOOSE i \in 1..Len(ch_log) : ch_log[i].check = "bcb"].ret

\* check_bcb read a bootonce- command and returned its target.
C12_BootonceHonored ==
    /\ BcbReturned
    /\ ch_bcb.state = "read"
    /\ ch_bcb.found.command.prefix = "bootonce-"
    /\ BcbResult # "NORMAL_BOOT"

\* C12 as stated: once a bootonce- target has been honored, misc holds an
\* empty command, so the next check_bcb yields NORMAL_BOOT, also when
\* write_bcb reported an error.
C12_BootonceConsumed ==
    C12_BootonceHonored =>
        /\ ch_bcb.left.command.prefix = ""
        /\ \A target_exists \in BOOLEAN :
               check_bcb(FALSE, FALSE, target_exists, ch_bcb.left).ret
                   = "NORMAL_BOOT"

\* ---- C13
\* C13: when read_bcb and write_bcb succeed, misc is left with an empty
\* status, the command read (emptied if it was bootonce-) and the recovery
\* field read; the write-back is in place before the target is resolved; no
\* write is issued when status was empty and the command not bootonce-.
C13_WriteBackFrame ==
    (ch_bcb.state = "read" /\ ch_bcb.write # "error") =>
        /\ ~ch_bcb.left.status_set
        /\ ch_bcb.left.command =
               IF ch_bcb.found.command.prefix = "bootonce-"
               THEN [prefix |-> "", target |-> NoBcbTarget]
               ELSE ch_bcb.found.command
        /\ ch_bcb.left.recovery = ch_bcb.found.recovery
        /\ ch_bcb.write = "none" <=>
               /\ ~ch_bcb.found.status_set
               /\ ch_bcb.found.command.prefix # "bootonce-"
        /\ ch_bcb.write = "none" => ch_bcb.left = ch_bcb.found
        /\ ch_pc = "bcb_target" => ~BcbReturned

\* A dirty bootonce- BCB written back, its target not yet resolved.
C13_Witness ==
    /\ ch_pc = "bcb_target"
    /\ ch_bcb.state = "read"
    /\ ch_bcb.write = "ok"
    /\ ch_bcb.found.status_set
    /\ ch_bcb.found.command.prefix = "bootonce-"
    /\ ch_bcb.found.recovery # ""
    /\ ch_bcb.left.recovery = ch_bcb.found.recovery
    /\ ch_bcb.left.command.prefix = ""

\* ---- C14
\* check_bcb selected a file on the ESP.
C14_PathSelected ==
    /\ BcbReturned
    /\ BcbResult \in {"ESP_EFI_BINARY", "ESP_BOOTIMAGE"}

C14_TargetBySuffix ==
    /\ ch_bcb.found.command.target.backslash
    /\ ch_target_path = ch_bcb.found.command.target.name
    /\ BcbResult = "ESP_EFI_BINARY" <=>
           ch_bcb.found.command.target.last4 \in {".efi", ".EFI"}

\* C14 as stated: a path target comes with oneshot TRUE for both command
\* forms, and is ESP_EFI_BINARY exactly for the suffixes .efi and .EFI.
C14_PathIsOneshot ==
    C14_PathSelected => (ch_oneshot = TRUE /\ C14_TargetBySuffix)

\* C14 amended: a path target comes with oneshot TRUE exactly when the
\* command form is bootonce- (FALSE for boot-), and is ESP_EFI_BINARY exactly
\* for the suffixes .efi and .EFI, ESP_BOOTIMAGE otherwise.
C14_PathOneshotOnlyForBootonce ==
    C14_PathSelected =>
        /\ ch_oneshot = (ch_bcb.found.command.prefix = "bootonce-")
        /\ ch_bcb.found.command.prefix \in {"boot-", "bootonce-"}
        /\ C14_TargetBySuffix

\* A persistent boot- command naming an .EFI file.
C14_Witness ==
    /\ C14_PathSelected
    /\ ch_bcb.found.command.prefix = "boot-"
    /\ ch_bcb.found.command.target.last4 = ".EFI"
    /\ BcbResult = "ESP_EFI_BINARY"
    /\ ch_oneshot = FALSE
    /\ ch_pc = "out"

\* C15 (as stated): from a cleared counter, over consecutive watchdog/panic
\* boots inside the 10-minute window that reach check_watchdog with the menu
\* enabled and whose watchdog-variable writes succeed, the crash event menu
\* comes up on the (max_allowed + 1)-th boot and on no earlier one, and the
\* counter is 0 afterwards.
C15_MenuOnBootAfterMax ==
    wdg_last.run > 0 =>
        /\ wdg_last.prompted <=> wdg_last.run = wdg_env.counter_max + 1
        /\ wdg_last.prompted => wdg_status.counter = 0

\* C15 (amended): the same, over boots on which in addition the status read
\* and GetTime succeed and, in a USER build, the reboot reason is not
\* "shutdown": only those boots are counted.
C15_MenuOnCountedBootAfterMax ==
    wdg_last.strict_run > 0 =>
        /\ wdg_last.prompted <=>
               wdg_last.strict_run = wdg_env.counter_max + 1
        /\ wdg_last.prompted => wdg_status.counter = 0

C15_Witness ==
    /\ wdg_env.counter_max = 2
    /\ wdg_last.strict_run = 3
    /\ wdg_last.prompted
    /\ wdg_status = WatchdogStatusReset

\* C16: the crash event menu comes up only after more than max_allowed
\* watchdog/panic resets in a row: no boot with another reset reason lies
\* between the resets counted toward it.
C16_MenuAfterResetsInARow ==
    wdg_last.prompted => wdg_last.row > wdg_env.counter_max

\* C17: on a watchdog/panic boot that reaches the window test with a
\* persisted counter above 0 and whose writes succeed, the count restarts
\* (counter 1, time reference now) exactly when now is before the time
\* reference or more than 600 seconds after it; at exactly 600 seconds it
\* goes on, and the time reference is rewritten only on a restart.
C17_WindowRestart ==
    (wdg_last.tested /\ wdg_last.written /\ wdg_last.found.counter > 0) =>
        LET found == wdg_last.found
            over == \/ wdg_last.now < found.time_ref
                    \/ wdg_last.now - found.time_ref > 600
        IN  /\ over => wdg_status = [counter |-> 1,
                                     time_ref |-> wdg_last.now]
            /\ ~over /\ ~wdg_last.prompted =>
                   wdg_status = [found EXCEPT !.counter = @ + 1]
            /\ ~over /\ wdg_last.prompted =>
                   wdg_status = WatchdogStatusReset

C17_Witness ==
    /\ wdg_last.tested /\ wdg_last.written
    /\ wdg_last.found.counter = 1
    /\ wdg_last.now - wdg_last.found.time_ref = 600
    /\ wdg_status = [wdg_last.found EXCEPT !.counter = 2]

\* The slots after slot_boot_failed ran for each slot of marks in turn.
RECURSIVE LoadReplay(_, _)
LoadReplay(sl, marks) ==
    IF marks = <<>> THEN sl
    ELSE LoadReplay(slot_boot_failed(sl, Head(marks), "NORMAL_BOOT"),
                    Tail(marks))

\* Each slot of marks was the active one when it was marked.
RECURSIVE LoadMarksActive(_, _)
LoadMarksActive(sl, marks) ==
    \/ marks = <<>>
    \/ /\ Head(marks) = SelectActive(sl)
       /\ LoadMarksActive(slot_boot_failed(sl, Head(marks), "NORMAL_BOOT"),
                          Tail(marks))

RECURSIVE LoadSum(_, _, _)
LoadSum(Weight(_), sl, i) ==
    IF i = 0 THEN 0
    ELSE Weight(sl[SlotSuffixes[i]]) + LoadSum(Weight, sl, i - 1)

LoadTries(m) == m.tries_remaining
LoadAttempts(m) ==
    IF ~SlotBootable(m) THEN 0 ELSE Max2(m.tries_remaining, 1)

C19_BootStateWrittenBeforeStart ==
    \A r \in started : r.BootState = r.boot_state

C19_Witness ==
    \E r1, r2 \in started :
        /\ r1.by = "efi_main" /\ r1.BootState = BOOT_STATE_GREEN
        /\ r2.by = "fastboot" /\ r2.BootState = BOOT_STATE_ORANGE
        /\ boot_state = BOOT_STATE_GREEN

\* C20 (as stated): the trust state under which an image received in the
\* fastboot loop is handed off depends on the result of validating that
\* image: two images that validate differently are not handed off under
\* the same state.
C20_FastbootStateFollowsValidation ==
    \A r1, r2 \in started :
        (r1.by = "fastboot" /\ r2.by = "fastboot"
            /\ r1.validated # r2.validated)
        => r1.boot_state # r2.boot_state

\* C20 (amended): an image received in the fastboot loop is validated as a
\* MEMORY image but the result is not used: whatever it is, the image is
\* handed off as MEMORY under ORANGE, with ORANGE written to BootState.
C20_FastbootImageOrange ==
    \A r \in started :
        r.by = "fastboot" =>
            /\ r.boot_state = BOOT_STATE_ORANGE
            /\ r.BootState = BOOT_STATE_ORANGE
            /\ r.target = "MEMORY"

C20_Witness ==
    /\ ended = "handoff"
    /\ \E r \in started :
           r.by = "fastboot" /\ r.validated = BOOT_STATE_RED

\* C21: in check_magic_key, a down-arrow key seen within the polling window
\* gives FASTBOOT when it stays held for at least 2 seconds and RECOVERY
\* when it is released earlier; any other key, or no key, gives NORMAL_BOOT.
C21_ShortPressIsRecovery ==
    mk.pc = "done" =>
        mk.ret = IF ~(mk.key_read /\ mk.is_magic) THEN "NORMAL_BOOT"
                 ELSE IF mk.held_ms >= 2000 THEN "FASTBOOT"
                 ELSE "RECOVERY"

\* C22: the polling time is the MagicKeyTimeout value when the variable is
\* readable and at most 1000 (0, 200 and 1000 included) and 200 ms when it
\* is unreadable or above 1000; the loop makes at most wait_ms + 1 key reads
\* and at most wait_ms stalls, stops at the first successful read, and reads
\* exactly once when wait_ms is 0.
C22_PollingBounded ==
    mk.pc # "entry" =>
        /\ mk.wait_ms = IF mk.timeout_var >= 0 /\ mk.timeout_var <= 1000
                        THEN mk.timeout_var ELSE 200
        /\ mk.reads <= mk.wait_ms + 1
        /\ mk.stalls <= mk.wait_ms
        /\ mk.pc \in {"polled", "done"} =>
               /\ mk.reads >= 1
               /\ mk.stalls = mk.reads - 1
               /\ mk.key_read => mk.reads = mk.key_time + 1
               /\ ~mk.key_read => mk.reads = mk.wait_ms + 1
               /\ mk.wait_ms = 0 => mk.reads = 1

C22_Witness ==
    /\ mk.pc = "done"
    /\ mk.timeout_var = 1000
    /\ mk.wait_ms = 1000
    /\ mk.key_time = 1000
    /\ mk.key_read
    /\ mk.reads = 1001
    /\ mk.stalls = 1000

\* C23: whenever choose_boot_target reaches the LoaderEntryOneShot rule, the
\* variable is absent from the firmware store afterwards, whatever it held;
\* when a higher-priority rule decides the target it is left in place.
C23_OneShotDeleted ==
    /\ (\E i \in 1..Len(ch_log) : ch_log[i].check = "loader_entry_one_shot")
           => ch_oneshot_var = ""
    /\ (\A i \in 1..Len(ch_log) : ch_log[i].check # "loader_entry_one_shot")
           => ch_oneshot_var = "unread"

BatteryResult ==
    ch_log[CHOOSE i \in 1..Len(ch_log) : ch_log[i].check = "battery"].ret
LowBatteryShown == \E i \in 1..Len(ch_ux) : ch_ux[i] = "low_battery"

\* C25 (as stated): when the battery-level rule is reached with the battery
\* below the boot-OS threshold, the result is CHARGER with a charger plugged
\* in and POWER_OFF without, whatever the off-mode-charge setting; the
\* low-battery UX is shown exactly when this rule yields POWER_OFF.
C25_LowBattery ==
    /\ (ch_battery.read /\ ch_battery.below_threshold) =>
           BatteryResult = IF ch_battery.charger_plugged THEN "CHARGER"
                           ELSE "POWER_OFF"
    /\ LowBatteryShown <=> (ch_battery.read /\ BatteryResult = "POWER_OFF")

\* C25 (amended): with off-mode charge enabled the rule yields CHARGER or
\* POWER_OFF for a battery below the threshold, by the charger; with
\* off-mode charge disabled it yields NORMAL_BOOT without looking at the
\* battery; the low-battery UX is shown exactly when this rule yields
\* POWER_OFF and for no POWER_OFF of another rule.
C25_LowBatteryWithOffModeCharge ==
    /\ ch_battery.read =>
           BatteryResult =
               IF ~ch_env.off_mode_charge \/ ~ch_battery.below_threshold
               THEN "NORMAL_BOOT"
               ELSE IF ch_battery.charger_plugged THEN "CHARGER"
               ELSE "POWER_OFF"
    /\ LowBatteryShown <=> (ch_battery.read /\ BatteryResult = "POWER_OFF")
    /\ (ch_ret = "POWER_OFF" /\ ~ch_battery.read) => ~LowBatteryShown

C25_Witness ==
    /\ ch_pc = "out"
    /\ ch_battery.read
    /\ ch_battery.below_threshold /\ ~ch_battery.charger_plugged
    /\ ch_env.off_mode_charge
    /\ ch_ret = "POWER_OFF"
    /\ LowBatteryShown

\* C24: check_loader_entry_one_shot gives NORMAL_BOOT for an absent variable,
\* the named target for a known name (POWER_OFF for CHARGER when off-mode
\* charge is disabled), NORMAL_BOOT after one call of
\* slot_set_verity_corrupted(TRUE) for 'dm-verity device corrupted' whether
\* or not the call fails, and NORMAL_BOOT without a call for any other string.
C24_OneShotMapping ==
    (fn.call = "check_loader_entry_one_shot" /\ fn.done) =>
        LET value == fn.in.value
            known == CASE value = "recovery" -> "RECOVERY"
                       [] value = "fastboot" -> "FASTBOOT"
                       [] value = "charging" -> "CHARGER"
                       [] value = "dnx" -> "DNX"
                       [] value = "crashmode" -> "CRASHMODE"
                       [] OTHER -> "UNKNOWN_TARGET"
        IN  /\ value = "" =>
                   fn.out.ret = "NORMAL_BOOT" /\ fn.out.verity_calls = 0
            /\ known # "UNKNOWN_TARGET" =>
                   /\ fn.out.ret =
                          IF known = "CHARGER" /\ ~fn.in.env.off_mode_charge
                          THEN "POWER_OFF" ELSE known
                   /\ fn.out.verity_calls = 0
            /\ value = "dm-verity device corrupted" =>
                   /\ fn.out.ret = "NORMAL_BOOT"
                   /\ fn.out.verity_calls = 1
                   /\ fn.out.verity = ~fn.in.verity_error
            /\ value = "bogus" =>
                   /\ fn.out.ret = "NORMAL_BOOT"
                   /\ fn.out.verity_calls = 0
                   /\ ~fn.out.verity

C24_Witness ==
    /\ fn.call = "check_loader_entry_one_shot" /\ fn.done
    /\ fn.in.value = "dm-verity device corrupted"
    /\ fn.in.verity_error
    /\ fn.out.ret = "NORMAL_BOOT"
    /\ fn.out.verity_calls = 1

\* GetTime is reached: the menu is enabled, the status was read, the reset
\* is due to a watchdog or panic and no shutdown reason powered the device
\* off before.
C26_GetTimeCalled ==
    /\ fn.in.crash_event_menu
    /\ reset_is_due_to_watchdog_or_panic(fn.in.watchdog_reset_source,
                                         fn.in.reboot_reason)
    /\ ~(fn.in.user /\ fn.in.reboot_reason = "shutdown")

\* C26: a failing read never aborts the selection: when read_bcb fails
\* check_bcb returns NORMAL_BOOT with oneshot FALSE, target_path NULL and no
\* BCB write; when get_watchdog_status or GetTime fails check_watchdog
\* returns NORMAL_BOOT and leaves the persisted counter alone; when get_argv
\* fails check_command_line returns NORMAL_BOOT; each time the selector goes
\* on to its next rule.
C26_ReadFailuresGiveNormalBoot ==
    /\ (fn.call = "check_bcb" /\ fn.done /\ fn.in.read_error) =>
           /\ fn.out.ret = "NORMAL_BOOT"
           /\ fn.out.oneshot = FALSE
           /\ fn.out.target_path = "NULL"
           /\ fn.out.write = "none"
           /\ fn.out.bcb = fn.in.bcb
           /\ ~GoesOut(fn.out.ret)
    /\ (/\ fn.call = "check_watchdog" /\ fn.done
        /\ \/ fn.in.crash_event_menu /\ fn.in.failure = "get_watchdog_status"
           \/ C26_GetTimeCalled /\ fn.in.failure = "GetTime") =>
           /\ fn.out.ret = "NORMAL_BOOT"
           /\ fn.out.wd = fn.in.wd
           /\ ~fn.out.prompted
           /\ ~GoesOut(fn.out.ret)
    /\ (fn.call = "check_command_line" /\ fn.done /\ fn.in.argv_error) =>
           /\ fn.out.ret = "NORMAL_BOOT"
           /\ ~GoesOut(fn.out.ret)

C26_Witness ==
    /\ fn.call = "check_command_line" /\ fn.done
    /\ fn.in.argv_error
    /\ Len(fn.in.argv) = 2 /\ fn.in.argv[2] = "-f"
    /\ fn.out.ret = "NORMAL_BOOT"

\* Whether the command line returned holds the fragment, and how often.
FnCount(frag) ==
    Cardinality({i \in 1..Len(fn.out.cmdline) : fn.out.cmdline[i] = frag})
FnPrepended(frag) == FnCount(frag) > 0
FnPrependDone == fn.call = "prepend_slot_command_line" /\ fn.done
FnVerifiedWithoutRoot ==
    /\ fn.in.vb_data.present
    /\ fn.in.vb_data.cmdline # "NULL"
    /\ fn.in.vb_data.cmdline \notin VbCmdlinesWithRoot
FnAllSucceed == fn.in.sys.failure = "none"

\* C27 (as stated): with A/B slots in use and every call succeeding,
\* prepend_slot_command_line adds the rootfs prefix and the root=PARTUUID
\* fragment together, if and only if the verified command line has no
\* 'root=' and the target is neither RECOVERY nor MEMORY; otherwise it adds
\* neither.
C27_RootfsFragmentTogether ==
    (FnPrependDone /\ fn.in.sys.use_slot /\ FnAllSucceed) =>
        LET wanted == /\ FnVerifiedWithoutRoot
                      /\ fn.in.target \notin {"RECOVERY", "MEMORY"}
        IN  /\ FnPrepended(AVB_ROOTFS_PREFIX) <=> wanted
            /\ FnPrepended(RootFragment(fn.in.sys.system_uuid)) <=> wanted

\* C27 (amended): with A/B slots in use and every call succeeding, the
\* rootfs prefix is added exactly when the target is neither RECOVERY nor
\* MEMORY, whatever the verified command line holds, and the root=PARTUUID
\* fragment exactly when there is a verified command line without 'root=',
\* whatever the target; without A/B slots nothing is added.
C27_RootfsFragmentsApart ==
    FnPrependDone =>
        /\ (fn.in.sys.use_slot /\ FnAllSucceed) =>
               /\ FnPrepended(AVB_ROOTFS_PREFIX) <=>
                      fn.in.target \notin {"RECOVERY", "MEMORY"}
               /\ FnPrepended(RootFragment(fn.in.sys.system_uuid)) <=>
                      FnVerifiedWithoutRoot
        /\ ~fn.in.sys.use_slot => fn.out.cmdline = fn.in.cmdline16

C27_Witness ==
    /\ FnPrependDone
    /\ fn.in.sys.use_slot /\ FnAllSucceed
    /\ fn.in.target = "RECOVERY"
    /\ FnVerifiedWithoutRoot
    /\ ~FnPrepended(AVB_ROOTFS_PREFIX)
    /\ FnPrepended(RootFragment(fn.in.sys.system_uuid))

\* The case of C28: a NORMAL_BOOT with A/B slots in use, an active slot, a
\* verified command line without 'root=' and every call succeeding.
C28_Case ==
    /\ FnPrependDone
    /\ fn.in.target = "NORMAL_BOOT"
    /\ fn.in.sys.use_slot
    /\ fn.in.sys.active # "NULL"
    /\ FnVerifiedWithoutRoot
    /\ FnAllSucceed

\* C28 (as stated): in that case the command line produced begins with the
\* rootfs prefix and holds androidboot.slot_suffix=<active suffix> once.
C28_BeginsWithRootfsPrefix ==
    C28_Case =>
        /\ fn.out.cmdline[1] = AVB_ROOTFS_PREFIX
        /\ FnCount(SlotSuffixFragment(fn.in.sys.active)) = 1

\* C28 (amended): in that case the command line produced is the root=PARTUUID
\* fragment, then androidboot.slot_suffix=<active suffix>, then the rootfs
\* prefix, then the line handed in: the prefix is there once but third, and
\* the slot suffix once.
C28_RootfsPrefixThird ==
    C28_Case =>
        /\ fn.out.ret = "EFI_SUCCESS"
        /\ fn.out.cmdline =
               <<RootFragment(fn.in.sys.system_uuid),
                 SlotSuffixFragment(fn.in.sys.active), AVB_ROOTFS_PREFIX>>
               \o fn.in.cmdline16
        /\ FnCount(AVB_ROOTFS_PREFIX) = 1
        /\ FnCount(SlotSuffixFragment(fn.in.sys.active)) = 1

C28_Witness ==
    /\ C28_Case
    /\ fn.in.sys.active = "_b"
    /\ Len(fn.in.cmdline16) = 1
    /\ Len(fn.out.cmdline) = 4
    /\ fn.out.cmdline[3] = AVB_ROOTFS_PREFIX

FnValidateDone == fn.call = "validate_bootimage" /\ fn.done
\* What validate_bootimage returns when it accepts the names in accepted.
FnValidateResult(accepted) ==
    IF fn.in.verify_state # BOOT_STATE_RED /\ fn.in.name \in accepted
    THEN fn.in.verify_state
    ELSE BOOT_STATE_RED

\* C30 (as stated): validate_bootimage returns the verifier's state when it
\* is not RED and the declared name is accepted, RED otherwise; accepted are
\* '/boot' for NORMAL_BOOT, MEMORY, CHARGER and ESP_BOOTIMAGE, '/recovery'
\* as well for NORMAL_BOOT only, '/recovery' for RECOVERY ('/boot' when
\* recovery lives in the boot partition), and nothing for any other target.
C30_RecoveryNameForNormalBootOnly ==
    FnValidateDone =>
        fn.out.ret =
            FnValidateResult(
                CASE fn.in.target = "NORMAL_BOOT" -> {"/boot", "/recovery"}
                  [] fn.in.target = "MEMORY" -> {"/boot"}
                  [] fn.in.target = "CHARGER" -> {"/boot"}
                  [] fn.in.target = "ESP_BOOTIMAGE" -> {"/boot"}
                  [] fn.in.target = "RECOVERY" /\ fn.in.recovery_in_boot ->
                         {"/boot"}
                  [] fn.in.target = "RECOVERY" /\ ~fn.in.recovery_in_boot ->
                         {"/recovery"}
                  [] OTHER -> {})

\* C30 (amended): as above, but '/recovery' is accepted as well as '/boot'
\* for MEMORY just as for NORMAL_BOOT.
C30_RecoveryNameForMemoryToo ==
    FnValidateDone =>
        fn.out.ret =
            FnValidateResult(
                CASE fn.in.target = "NORMAL_BOOT" -> {"/boot", "/recovery"}
                  [] fn.in.target = "MEMORY" -> {"/boot", "/recovery"}
                  [] fn.in.target = "CHARGER" -> {"/boot"}
                  [] fn.in.target = "ESP_BOOTIMAGE" -> {"/boot"}
                  [] fn.in.target = "RECOVERY" /\ fn.in.recovery_in_boot ->
                         {"/boot"}
                  [] fn.in.target = "RECOVERY" /\ ~fn.in.recovery_in_boot ->
                         {"/recovery"}
                  [] OTHER -> {})

C30_Witness ==
    /\ FnValidateDone
    /\ fn.in.target = "MEMORY"
    /\ fn.in.name = "/recovery"
    /\ fn.in.verify_state = BOOT_STATE_YELLOW
    /\ fn.out.ret = BOOT_STATE_YELLOW

\* Between load_boot_image and the start with boot_state ORANGE: the boot
\* came to the load with ORANGE and the image was loaded (a failed load
\* turns the state RED, and validate_bootimage never returns ORANGE).
C29_OrangeLoad ==
    /\ pc \in {"load", "load_slot", "loaded", "check_state", "start"}
    /\ boot_state = BOOT_STATE_ORANGE
\* The one warning of an ORANGE boot.  lock_prompted is set where EFI secure
\* boot is found off on a device that is not provisioning, and nowhere else.
C29_OrangeWarning ==
    <<IF lock_prompted THEN "SECURE_BOOT_CODE" ELSE "DEVICE_UNLOCKED_CODE">>

\* C29: a boot that comes to load its image with boot_state ORANGE has called
\* boot_error once, with SECURE_BOOT_CODE when EFI secure boot is off and
\* the device is not provisioning and with DEVICE_UNLOCKED_CODE otherwise;
\* once the image is loaded no further prompt comes and load_image gets the
\* image with state ORANGE, whatever validate_bootimage returned.
C29_OrangeWarnedOnce ==
    /\ [](C29_OrangeLoad => ux_calls = C29_OrangeWarning)
    /\ [][(pc = "device_state" /\ pc' # pc) =>
              (lock_prompted' <=> ux_calls' = <<"SECURE_BOOT_CODE">>)]_vars
    /\ [][(pc = "loaded" /\ boot_state = BOOT_STATE_ORANGE
           /\ ~EFI_ERROR(load_ret)) =>
              (pc' = "check_state" /\ boot_state' = BOOT_STATE_ORANGE)]_vars
    /\ [][(pc = "check_state" /\ boot_state = BOOT_STATE_ORANGE) =>
              (pc' = "start" /\ UNCHANGED <<ux_calls, boot_state>>)]_vars
    /\ [][(pc = "start" /\ boot_state = BOOT_STATE_ORANGE
           /\ started' # started) =>
              /\ ux_calls' = C29_OrangeWarning
              /\ \A s \in started' \ started :
                     /\ s.by = "efi_main"
                     /\ s.boot_state = BOOT_STATE_ORANGE
                     /\ s.BootState = BOOT_STATE_ORANGE]_vars

\* An unlocked device was warned with DEVICE_UNLOCKED_CODE alone and its
\* image, which validate_bootimage found RED, was handed off as ORANGE.
C29_Witness ==
    /\ ended = "handoff"
    /\ boot_state = BOOT_STATE_ORANGE
    /\ ux_calls = <<"DEVICE_UNLOCKED_CODE">>
    /\ \E s \in started :
           /\ s.by = "efi_main"
           /\ s.boot_state = BOOT_STATE_ORANGE
           /\ s.validated = BOOT_STATE_RED

\* The orchestrator has checked no trust state, loaded no image and written
\* nothing persistent.
C31_NothingDone ==
    /\ boot_state = BOOT_STATE_GREEN
    /\ ux_calls = <<>>
    /\ BootStateVar = -1
    /\ load_log = LoadLogNone
    /\ slot_boot_calls = {}
    /\ started = {}
    /\ bootimage = "NULL"

FnCommandLineDone ==
    /\ fn.call = "check_command_line" /\ fn.done
    /\ fn.in.user /\ ~fn.in.argv_error
\* argv[pos], positions counted from 0 as in the code.
FnArg(pos) == fn.in.argv[pos + 1]
FnArgc == Len(fn.in.argv)
\* A flag of the command line at position pos: -f, or -a with an address.
FnFlagAt(pos) ==
    \/ FnArg(pos) = "-f"
    \/ FnArg(pos) = "-a" /\ pos + 1 < FnArgc

\* C32 (as stated): in a USER build an argument list that holds -f, or -a
\* followed by an address, gives FASTBOOT wherever the flag stands and
\* whatever else is in the list.
C32_FlagAnywhere ==
    (FnCommandLineDone /\ \E pos \in 0..(FnArgc - 1) : FnFlagAt(pos)) =>
        fn.out.ret = "FASTBOOT"

\* C32 (amended): in a USER build a flag gives FASTBOOT when only -f
\* arguments stand between position 0 and the flag (position 0 being the
\* image name or a flag itself); an argument that is not recognised at
\* position 1, after an image name, ends the parsing with NORMAL_BOOT
\* whatever flags follow it.
C32_FlagBeforeUnexpected ==
    FnCommandLineDone =>
        /\ \A pos \in 0..(FnArgc - 1) :
               (/\ FnFlagAt(pos)
                /\ pos > 0 => FnArg(0) # "-a"
                /\ \A q \in 1..(pos - 1) : FnArg(q) = "-f") =>
                   fn.out.ret = "FASTBOOT"
        /\ (/\ FnArgc >= 2
            /\ FnArg(0) \notin {"-f", "-a"}
            /\ FnArg(1) \notin {"-f", "-a"}) =>
               fn.out.ret = "NORMAL_BOOT"

C32_Witness ==
    /\ FnCommandLineDone
    /\ fn.in.argv = <<"kernelflinger.efi", "0x1000", "-f">>
    /\ fn.out.ret = "NORMAL_BOOT"

FnLoadImageDone == fn.call = "load_image" /\ fn.done
\* The positions of a call among those load_image made.
FnCallsOf(name) ==
    {i \in 1..Len(fn.out.calls) : fn.out.calls[i] = name}

\* C34: load_image calls slot_boot before it starts the image; when
\* slot_boot fails the image is not started and slot_boot_failed is not
\* called; whenever android_image_start_buffer returns, slot_boot_failed is
\* called exactly once, and load_image returns its result, not the error of
\* the start.
C34_SlotBootAroundStart ==
    FnLoadImageDone =>
        /\ \A i \in FnCallsOf("android_image_start_buffer") :
               \E j \in FnCallsOf("slot_boot") : j < i
        /\ (~fn.in.trusty_dies /\ EFI_ERROR(fn.in.slot_boot_ret)) =>
               /\ FnCallsOf("android_image_start_buffer") = {}
               /\ FnCallsOf("slot_boot_failed") = {}
               /\ fn.out.ret = fn.in.slot_boot_ret
        /\ (/\ FnCallsOf("android_image_start_buffer") # {}
            /\ fn.in.start_ret # "handoff") =>
               /\ Cardinality(FnCallsOf("slot_boot_failed")) = 1
               /\ \A i \in FnCallsOf("android_image_start_buffer") :
                      \A j \in FnCallsOf("slot_boot_failed") : i < j
               /\ fn.out.ret = fn.in.failed_ret
        /\ FnCallsOf("slot_boot_failed") # {} =>
               /\ FnCallsOf("android_image_start_buffer") # {}
               /\ fn.in.start_ret # "handoff"

C34_Witness ==
    /\ FnLoadImageDone
    /\ fn.in.start_ret = "EFI_LOAD_ERROR"
    /\ fn.in.failed_ret = "EFI_SUCCESS"
    /\ fn.out.calls =
           <<"slot_boot", "android_image_start_buffer", "slot_boot_failed">>
    /\ fn.out.ret = "EFI_SUCCESS"

\* C35: in the fastboot loop a boot image from the host is started only when
\* device_is_unlocked() holds in that iteration, and then as target MEMORY
\* with state and BootState ORANGE; on a device that is not unlocked the
\* image is dropped with no BootState write and no slot update, and the
\* loop goes on.
C35_FastbootBootNeedsUnlocked ==
    /\ [](\A s \in started :
              s.by = "fastboot" =>
                  /\ s.target = "MEMORY"
                  /\ s.boot_state = BOOT_STATE_ORANGE
                  /\ s.BootState = BOOT_STATE_ORANGE)
    /\ [][(pc = "fastboot_loop" /\ started' # started) =>
              (/\ fb_image'.seen /\ fb_image'.unlocked
               /\ \A s \in started' \ started : s.by = "fastboot")]_vars
    /\ [][(/\ pc = "fastboot_loop"
           /\ fb_image' # fb_image
           /\ ~fb_image'.unlocked) =>
              (/\ pc' = "fastboot_loop"
               /\ UNCHANGED <<BootStateVar, slots, slot_active,
                              slot_boot_calls, started, ended>>)]_vars

\* The loop was handed an image on a locked device after it had started one,
\* which came back, on an unlocked device.
C35_Witness ==
    /\ pc = "fastboot_loop"
    /\ fb_image.seen /\ ~fb_image.unlocked
    /\ \E s \in started : s.by = "fastboot"

OneShotRan == \E i \in 1..Len(ch_log) : ch_log[i].check = "loader_entry_one_shot"
OneShotResult ==
    ch_log[CHOOSE i \in 1..Len(ch_log) :
               ch_log[i].check = "loader_entry_one_shot"].ret
OneShotDnx == OneShotRan /\ OneShotResult = "DNX"

\* A one-shot DNX is never returned: the battery-level rule runs next and the
\* result is its target, or the target of the charger-wake rule when it
\* yields NORMAL_BOOT.  Every other one-shot target except NORMAL_BOOT ends
\* the selection at once.
OneShotDnxFallsThrough ==
    /\ (OneShotDnx /\ ch_pc = "out") =>
           /\ ch_ret # "DNX"
           /\ ch_battery.read
           /\ BatteryResult = check_battery(ch_battery.below_threshold,
                                            ch_battery.charger_plugged, ch_env)
           /\ ch_ret = IF BatteryResult # "NORMAL_BOOT" THEN BatteryResult
                       ELSE check_charge_mode(ch_env)
    /\ (OneShotDnx /\ ch_pc # "out") => ch_pc \in {"battery", "charge_mode"}
    /\ (OneShotRan /\ OneShotResult \notin {"DNX", "NORMAL_BOOT"}) =>
           /\ ch_pc = "out"
           /\ ch_ret = OneShotResult
           /\ ch_log[Len(ch_log)].check = "loader_entry_one_shot"
           /\ ~ch_battery.read

\* C36: a LoaderEntryOneShot value that resolves to DNX never makes
\* choose_boot_target return DNX: the variable is deleted all the same, and
\* the result is decided by the battery-level and charger-wake rules as if
\* the one-shot rule had yielded NORMAL_BOOT; every other non-NORMAL_BOOT
\* one-shot target is returned immediately.
C36_OneShotDnx ==
    /\ OneShotDnx => ch_oneshot_var = ""
    /\ OneShotDnxFallsThrough

FnWatchdogDone == fn.call = "check_watchdog" /\ fn.done
\* The reset-source test is reached and the reset is of another kind.
FnWatchdogOtherReset ==
    /\ fn.in.crash_event_menu
    /\ fn.in.failure # "get_watchdog_status"
    /\ ~reset_is_due_to_watchdog_or_panic(fn.in.watchdog_reset_source,
                                          fn.in.reboot_reason)

FnBcbTwiceDone == fn.call = "check_bcb_twice" /\ fn.done
FnBcbPersistent == fn.in.bcb.command.prefix = "boot-"
\* What the claim says of the two runs.
FnBcbTwiceSame ==
    /\ fn.out.first.ret = fn.out.second.ret
    /\ fn.out.first.target_path = fn.out.second.target_path
    /\ ~fn.out.first.bcb.status_set
    /\ fn.out.first.bcb.command = fn.in.bcb.command
    /\ fn.out.second.write = "none"
    /\ fn.out.second.bcb = fn.out.first.bcb

SlotTriesLeft(m) == IF SlotBootable(m) THEN m.tries_remaining + 1 ELSE 0
\* What efi_main asks about before it reboots to the target again.
TriesLeft(sl, tries) ==
    IF boot_target = "RECOVERY" /\ ~cfg.recovery_in_boot_partition
    THEN tries
    ELSE SlotTriesLeft(sl["_a"]) + SlotTriesLeft(sl["_b"])
StartedByEfiMain == \E s \in started : s.by = "efi_main"
\* android_image_start_buffer came back to load_image.
HandoffFailed == pc = "start" /\ pc' = "after" /\ started' # started
\* efi_main calls reboot_to_target after load_image and the reset happens.
RebootsToTarget == pc = "after" /\ pc' = "end" /\ ended' = "reboot"
\* The sequence of boots for the target is over: the recovery menu is up,
\* the boot ended without a reboot to the target, or slot_boot could not
\* write the metadata.
BootsOver ==
    \/ pc = "recover_mode"
    \/ pc = "end" /\ ended # "reboot"
    \/ pc = "after" /\ ~StartedByEfiMain
RebootOnlyWhileBootable ==
    [][RebootsToTarget => (/\ boot_target \in {"NORMAL_BOOT", "CHARGER",
                                              "RECOVERY"}
                           /\ TriesLeft(slots, recovery_tries) > 0)]_vars

WdgCounterInMemory ==
    1 + (IF /\ wdg_last.found.counter > 0
            /\ watchdog_delay_over(wdg_last.now, wdg_last.found.time_ref)
         THEN 0
         ELSE wdg_last.found.counter)

\* C40: with a constant get_watchdog_counter_max() and a persisted counter
\* that starts within 0..max, the persisted counter stays within 0..max over
\* any sequence of boots: check_watchdog writes the incremented counter only
\* when it is <= max and otherwise resets the watchdog status, and the 8-bit
\* counter is never incremented past max + 1 in memory.
C40_CounterWithinMax ==
    /\ wdg_status.counter \in 0..wdg_env.counter_max
    /\ wdg_last.tested => WdgCounterInMemory \in 1..(wdg_env.counter_max + 1)
    /\ (wdg_last.tested /\ wdg_last.written) =>
           IF WdgCounterInMemory <= wdg_env.counter_max
           THEN /\ wdg_status.counter = WdgCounterInMemory
                /\ ~wdg_last.prompted
           ELSE /\ wdg_status = WatchdogStatusReset
                /\ wdg_last.prompted
    /\ wdg_status.counter # wdg_last.found.counter =>
           \/ wdg_status.counter = 0
           \/ /\ wdg_last.tested
              /\ wdg_status.counter = WdgCounterInMemory
              /\ WdgCounterInMemory <= wdg_env.counter_max

C40_Witness ==
    /\ wdg_env.counter_max = 2
    /\ wdg_boots = 3
    /\ wdg_last.tested /\ wdg_last.written
    /\ wdg_last.found.counter = 2
    /\ WdgCounterInMemory = 3
    /\ wdg_last.prompted
    /\ wdg_status = WatchdogStatusReset

-----------------------------------------------------------------------------
====
